---- MODULE Spec2Model ----
(***************************************************************************)
(* A model of the Tensr tensor core (src/src/core/tensor.c), its element  *)
(* access (src/src/io/io.c) and its element-wise binary operations        *)
(* (src/src/ops/arithmetic.c).                                             *)
(*                                                                         *)
(* The heap is the set of blocks malloc has handed out and free has not   *)
(* yet taken back.  A Tensor* is a handle h; its struct is the block      *)
(* <<"tensor", h>>, its arrays the blocks <<"shape", h>>, <<"strides", h>>*)
(* and its payload the block <<"data", b>> where b is the handle of the   *)
(* tensor whose creation allocated it (b = h for an owner, the owner's    *)
(* handle for a view).                                                     *)
(*                                                                         *)
(* size_t is WordBits wide: every size_t product is taken modulo WordMod. *)
(* A double is a whole number of quanta of 1/One; a float keeps only      *)
(* F32FracBits of the F64FracBits fractional bits, an integer none.       *)
(***************************************************************************)
EXTENDS Integers, Sequences, FiniteSets, TLC

\* ------------------------------------------------------------------ bounds
MaxTensors == 3
WordBits == 6
F64FracBits == 2
F32FracBits == 1
MaxDeviceId == 1
RandBits == 3
MaxClock == 2

WordMod == 2 ^ WordBits
One == 2 ^ F64FracBits
F32Step == 2 ^ (F64FracBits - F32FracBits)

NULL == 0

\* rand() returns 0 .. RAND_MAX; int is one bit wider than RAND_MAX needs.
RandMod == 2 ^ RandBits
RAND_MAX == RandMod - 1
IntMod == 2 * RandMod
INT_MAX == RandMod - 1
INT_MIN == -RandMod

\* ------------------------------------------------------------ type registry
DTypes == {"FLOAT32", "FLOAT64", "INT32", "INT64", "UINT8", "BOOL"}

Devices == {"CPU", "CUDA", "XPU", "NPU", "TPU"}

tensr_dtype_size(dtype) ==
    CASE dtype = "FLOAT32" -> 4
      [] dtype = "FLOAT64" -> 8
      [] dtype = "INT32" -> 4
      [] dtype = "INT64" -> 8
      [] dtype = "UINT8" -> 1
      [] dtype = "BOOL" -> 1
      [] OTHER -> 0

\* --------------------------------------------------------------- conversions
Abs(x) == IF x < 0 THEN -x ELSE x

\* (int32_t)value, (int64_t)value: truncation toward zero.
TruncToInt(v) == IF v >= 0 THEN (v \div One) * One ELSE -((-v \div One) * One)

\* n/d rounded to the nearest multiple of step, ties to the even multiple:
\* the rounding of a floating-point conversion or operation.
RoundRat(n, d, step) ==
    LET neg == (n < 0) # (d < 0)
        an == Abs(n)
        ad == Abs(d) * step
        q == an \div ad
        r == an % ad
        up == \/ 2 * r > ad
              \/ (2 * r = ad /\ q % 2 = 1)
        m == (IF up THEN q + 1 ELSE q) * step
    IN IF neg THEN -m ELSE m

\* (float)value
RoundToFloat(v) == RoundRat(v, 1, F32Step)

\* ------------------------------------------------------------- size, strides
RECURSIVE compute_size_loop(_, _, _, _)
compute_size_loop(shape, ndim, i, size) ==
    IF i > ndim THEN size
    ELSE compute_size_loop(shape, ndim, i + 1, (size * shape[i]) % WordMod)

compute_size(shape, ndim) == compute_size_loop(shape, ndim, 1, 1)

RECURSIVE compute_strides_loop(_, _, _)
compute_strides_loop(strides, shape, i) ==
    IF i < 1 THEN strides
    ELSE compute_strides_loop(
             [strides EXCEPT ![i] = (strides[i + 1] * shape[i + 1]) % WordMod],
             shape, i - 1)

compute_strides(shape, ndim) ==
    compute_strides_loop([k \in 1..ndim |-> IF k = ndim THEN 1 ELSE 0],
                         shape, ndim - 1)

\* -------------------------------------------------------------------- state
\* rng is the state of random.c and of the C library generator behind rand().
\* files is the file system tensr_save and tensr_load see; wrappers is the
\* tensr::Tensor objects of the C++ interface.
VARIABLES tensors, heap, mem, released, last, crashed, rng, files, wrappers

vars == <<tensors, heap, mem, released, last, crashed, rng, files, wrappers>>

Handles == 1..Len(tensors)

TensorBlock(h) == <<"tensor", h>>
ShapeBlock(h) == <<"shape", h>>
StridesBlock(h) == <<"strides", h>>
DataBlock(b) == <<"data", b>>
AxesBlock(k) == <<"axes", k>>

Live(h) == h \in Handles /\ TensorBlock(h) \in heap

Outcome(op, h, res, arg, ok) ==
    [op |-> op, h |-> h, res |-> res, arg |-> arg, ok |-> ok]

\* rng_state is 0 at load (random.c) and rand() starts as if srand(1) had been
\* called.  seeded and expect are history: the last seed passed to tensr_seed by
\* the caller (-1: none yet) and the generator state of a run that made the
\* same calls since then with no other seeding.
rng_initial == [rng_state |-> 0, gen |-> 1 % RandMod, seeded |-> -1, expect |-> 1 % RandMod]

\* No file exists: files maps the name of each existing file to its content.
no_files == [name \in {} |-> <<>>]

\* No tensr::Tensor object has been constructed and tensr_free has not been
\* called by one: objs are the objects, freed the handles their members passed
\* to tensr_free, in order.
no_wrappers == [objs |-> <<>>, freed |-> <<>>]

Init ==
    /\ tensors = <<>>
    /\ heap = {}
    /\ mem = <<>>
    /\ released = <<>>
    /\ last = Outcome("init", NULL, NULL, <<>>, TRUE)
    /\ crashed = FALSE
    /\ rng = rng_initial
    /\ files = no_files
    /\ wrappers = no_wrappers

\* ------------------------------------------------------------- tensr_create
\* A cleanup that forgets free(t->strides).
create_release_forgetting_strides(hp, h) ==
    (hp \ {ShapeBlock(h)}) \ {TensorBlock(h)}

\* The cleanup of tensr_create when the payload malloc fails.
create_release_on_data_failure(hp, h) ==
    ((hp \ {ShapeBlock(h)}) \ {StridesBlock(h)}) \ {TensorBlock(h)}

\* The cleanup of tensr_create when the shape or the strides malloc fails
\* (free(NULL) is a no-op, so removing an absent block changes nothing).
create_release_on_meta_failure(hp, h) ==
    ((hp \ {ShapeBlock(h)}) \ {StridesBlock(h)}) \ {TensorBlock(h)}

\* fail names the malloc that returns NULL in this call ("none": no malloc fails).
CreateFails == {"none", "tensor", "shape", "strides", "meta", "data"}

tensr_create(hp, h, shape, ndim, dtype, device, fail) ==
    IF fail = "tensor" THEN [ok |-> FALSE, heap |-> hp]
    ELSE
      LET hp1 == hp \cup {TensorBlock(h)}
          hp2 == IF fail \in {"shape", "meta"} THEN hp1 ELSE hp1 \cup {ShapeBlock(h)}
          hp3 == IF fail \in {"strides", "meta"} THEN hp2 ELSE hp2 \cup {StridesBlock(h)}
      IN
      IF fail \in {"shape", "strides", "meta"}
      THEN [ok |-> FALSE, heap |-> create_release_on_meta_failure(hp3, h)]
      ELSE
        LET size == compute_size(shape, ndim)
            bytes == (size * tensr_dtype_size(dtype)) % WordMod
        IN
        IF fail = "data"
        THEN [ok |-> FALSE, heap |-> create_release_on_data_failure(hp3, h)]
        ELSE [ok |-> TRUE,
              heap |-> hp3 \cup {DataBlock(h)},
              bytes |-> bytes,
              t |-> [data |-> h,
                     shape |-> shape,
                     strides |-> compute_strides(shape, ndim),
                     ndim |-> ndim,
                     size |-> size,
                     dtype |-> dtype,
                     device |-> device,
                     device_id |-> 0,
                     owns_data |-> TRUE]]

\* The payload of a fresh buffer is whatever malloc returned: cell i holds fill[i].
Capacity(bytes, dtype) == bytes \div tensr_dtype_size(dtype)

Create(shape, dtype, device, fail, fill) ==
    /\ ~crashed
    /\ UNCHANGED <<rng, files, wrappers>>
    /\ Len(tensors) < MaxTensors
    /\ LET h == Len(tensors) + 1
           r == tensr_create(heap, h, shape, Len(shape), dtype, device, fail)
       IN
       /\ heap' = r.heap
       /\ IF r.ok
          THEN /\ tensors' = Append(tensors, r.t)
               /\ mem' = Append(mem, [i \in 1..Capacity(r.bytes, dtype) |-> fill])
               /\ released' = Append(released, 0)
               /\ last' = Outcome("create", NULL, h, shape, fail = "none")
          ELSE /\ UNCHANGED <<tensors, mem, released>>
               /\ last' = Outcome("create", NULL, NULL, shape, fail = "none")
    /\ UNCHANGED crashed

\* --------------------------------------------------------------- tensr_free
\* A tensr_free that releases the payload whether or not the tensor owns it.
tensr_free_ignoring_owns_data(t, h) ==
    (IF t.data # NULL THEN <<DataBlock(t.data)>> ELSE <<>>)
        \o <<ShapeBlock(h), StridesBlock(h), TensorBlock(h)>>

\* The blocks tensr_free(t) passes to free(), in order.
tensr_free(t, h) ==
    (IF t.owns_data /\ t.data # NULL THEN <<DataBlock(t.data)>> ELSE <<>>)
        \o <<ShapeBlock(h), StridesBlock(h), TensorBlock(h)>>

Range(f) == {f[i] : i \in DOMAIN f}

Free(h) ==
    /\ ~crashed
    /\ UNCHANGED <<rng, files, wrappers>>
    /\ Live(h)
    /\ LET freed == tensr_free(tensors[h], h)
       IN
       /\ heap' = heap \ Range(freed)
       /\ released' = [b \in DOMAIN released |->
                         released[b]
                           + Cardinality({i \in DOMAIN freed : freed[i] = DataBlock(b)})]
    /\ last' = Outcome("free", h, NULL, <<>>, TRUE)
    /\ UNCHANGED <<tensors, mem, crashed>>

\* tensr_free(NULL): the if (t) guard skips everything.
FreeNull ==
    /\ ~crashed
    /\ UNCHANGED <<rng, files, wrappers>>
    /\ last' = Outcome("free_null", NULL, NULL, <<>>, TRUE)
    /\ UNCHANGED <<tensors, heap, mem, released, crashed>>

\* --------------------------------------------------------------- tensr_copy
\* memcpy(t->data, src->data, src->size * width): the first cells of src's buffer.
copy_payload(srcmem, n) == [i \in 1..n |-> srcmem[i]]

Copy(src, fail, fill) ==
    /\ ~crashed
    /\ UNCHANGED <<rng, files, wrappers>>
    /\ Live(src)
    /\ Len(tensors) < MaxTensors
    /\ LET s == tensors[src]
           h == Len(tensors) + 1
           r == tensr_create(heap, h, s.shape, s.ndim, s.dtype, s.device, fail)
       IN
       /\ heap' = r.heap
       /\ IF r.ok
          THEN LET n == Capacity(r.bytes, s.dtype)
               IN
               /\ tensors' = Append(tensors, r.t)
               /\ released' = Append(released, 0)
               /\ last' = Outcome("copy", src, h, s.shape, fail = "none")
               /\ IF DataBlock(s.data) \in heap /\ n <= Len(mem[s.data])
                  THEN /\ mem' = Append(mem, copy_payload(mem[s.data], n))
                       /\ UNCHANGED crashed
                  ELSE \* memcpy reads a released or too short buffer: undefined
                       /\ mem' = Append(mem, [i \in 1..n |-> fill])
                       /\ crashed' \in BOOLEAN
          ELSE /\ UNCHANGED <<tensors, mem, released, crashed>>
               /\ last' = Outcome("copy", src, NULL, s.shape, fail = "none")

\* ------------------------------------------------------------ tensr_reshape
\* fail: "none", "tensor" (the struct malloc), "shape", "strides".
ReshapeFails == {"none", "tensor", "shape", "strides"}

\* A reshape whose result claims the shared payload as its own.
reshape_result_owning(t, new_shape, new_ndim) ==
    [data |-> t.data,
     shape |-> new_shape,
     strides |-> compute_strides(new_shape, new_ndim),
     ndim |-> new_ndim,
     size |-> t.size,
     dtype |-> t.dtype,
     device |-> t.device,
     device_id |-> t.device_id,
     owns_data |-> TRUE]

\* The struct tensr_reshape fills in.
reshape_result(t, new_shape, new_ndim) ==
    [data |-> t.data,
     shape |-> new_shape,
     strides |-> compute_strides(new_shape, new_ndim),
     ndim |-> new_ndim,
     size |-> t.size,
     dtype |-> t.dtype,
     device |-> t.device,
     device_id |-> t.device_id,
     owns_data |-> FALSE]

reshape_accepts(t, new_shape, new_ndim) ==
    compute_size(new_shape, new_ndim) = t.size

Reshape(src, new_shape, fail) ==
    /\ ~crashed
    /\ UNCHANGED <<rng, files, wrappers>>
    /\ Live(src)
    /\ Len(tensors) < MaxTensors
    /\ LET t == tensors[src]
           h == Len(tensors) + 1
       IN
       IF ~reshape_accepts(t, new_shape, Len(new_shape))
       THEN /\ last' = Outcome("reshape", src, NULL, new_shape, TRUE)
            /\ UNCHANGED <<tensors, heap, mem, released, crashed>>
       ELSE IF fail = "tensor"
       THEN /\ last' = Outcome("reshape", src, NULL, new_shape, FALSE)
            /\ UNCHANGED <<tensors, heap, mem, released, crashed>>
       ELSE IF fail = "none"
       THEN /\ tensors' = Append(tensors, reshape_result(t, new_shape, Len(new_shape)))
            /\ heap' = heap \cup {TensorBlock(h), ShapeBlock(h), StridesBlock(h)}
            /\ mem' = Append(mem, <<>>)
            /\ released' = Append(released, 0)
            /\ last' = Outcome("reshape", src, h, new_shape, TRUE)
            /\ UNCHANGED crashed
       ELSE \* memcpy or compute_strides writes through the NULL the unchecked
            \* malloc returned: undefined, and no result is returned
            /\ crashed' = TRUE
            /\ heap' = heap \cup {TensorBlock(h)}
                            \cup (IF fail = "shape" THEN {StridesBlock(h)} ELSE {ShapeBlock(h)})
            /\ last' = Outcome("reshape", src, NULL, new_shape, FALSE)
            /\ UNCHANGED <<tensors, mem, released>>

\* ---------------------------------------------------------- tensr_transpose
\* naxes = 0: axes[i] = ndim - 1 - i (0-based); here axes are 1-based positions.
default_axes(ndim) == [i \in 1..ndim |-> ndim + 1 - i]

transpose_shape(t, axes) == [i \in 1..t.ndim |-> t.shape[axes[i]]]

AxisPermutations(n) == {p \in [1..n -> 1..n] : \A i, j \in 1..n : p[i] = p[j] => i = j}

NumAxesBlocks == Cardinality({b \in heap : b[1] = "axes"})

\* axes = <<>> stands for the call with naxes = 0.
\* fail: a CreateFails value, or "axes" (the malloc of the default axes).
Transpose(src, axes, fail, fill) ==
    /\ ~crashed
    /\ UNCHANGED <<rng, files, wrappers>>
    /\ Live(src)
    /\ Len(tensors) < MaxTensors
    /\ LET t == tensors[src]
           h == Len(tensors) + 1
           usedAxes == IF axes = <<>> THEN default_axes(t.ndim) ELSE axes
           hp0 == IF axes = <<>> /\ fail # "axes"
                  THEN heap \cup {AxesBlock(NumAxesBlocks + 1)} ELSE heap
           createFail == IF fail = "axes" THEN "none" ELSE fail
       IN
       IF axes = <<>> /\ fail = "axes"
       THEN \* axes[i] = ... stores through NULL: undefined
            /\ crashed' = TRUE
            /\ last' = Outcome("transpose", src, NULL, axes, FALSE)
            /\ UNCHANGED <<tensors, heap, mem, released>>
       ELSE
         LET r == tensr_create(hp0, h, t.shape, t.ndim, t.dtype, t.device, createFail)
         IN
         /\ heap' = r.heap
         /\ UNCHANGED crashed
         /\ IF r.ok
            THEN LET sh == transpose_shape(t, usedAxes)
                 IN
                 /\ tensors' = Append(tensors,
                        [r.t EXCEPT !.shape = sh,
                                    !.strides = compute_strides(sh, t.ndim)])
                 /\ mem' = Append(mem, [i \in 1..Capacity(r.bytes, t.dtype) |-> fill])
                 /\ released' = Append(released, 0)
                 /\ last' = Outcome("transpose", src, h, usedAxes, createFail = "none")
            ELSE /\ UNCHANGED <<tensors, mem, released>>
                 /\ last' = Outcome("transpose", src, NULL, usedAxes, createFail = "none")

\* ---------------------------------------------------------- tensr_to_device
ToDevice(h, device, device_id) ==
    /\ ~crashed
    /\ UNCHANGED <<rng, files, wrappers>>
    /\ Live(h)
    /\ tensors' = [tensors EXCEPT ![h].device = device, ![h].device_id = device_id]
    /\ last' = Outcome("to_device", h, NULL, <<>>, TRUE)
    /\ UNCHANGED <<heap, mem, released, crashed>>

\* --------------------------------------------------- tensr_get / tensr_set
\* idx += indices[i] * strides[i], in size_t arithmetic (0-based offset).
RECURSIVE flat_index(_, _, _, _)
flat_index(indices, strides, i, idx) ==
    IF i > Len(indices) THEN idx
    ELSE flat_index(indices, strides, i + 1,
                    (idx + indices[i] * strides[i]) % WordMod)

\* The dtypes some branch of tensr_get / tensr_set handles.
AccessDTypes == {"FLOAT32", "FLOAT64", "INT32", "INT64"}

\* The value tensr_set stores for value in a buffer of an AccessDTypes dtype.
set_store(dtype, value) ==
    CASE dtype = "FLOAT32" -> RoundToFloat(value)
      [] dtype = "FLOAT64" -> value
      [] dtype = "INT32" -> TruncToInt(value)
      [] dtype = "INT64" -> TruncToInt(value)

\* The offset tensr_get and tensr_set address can be used: the buffer is
\* allocated and the offset lies inside it.
Addressable(t, off) ==
    /\ t.data # NULL
    /\ DataBlock(t.data) \in heap
    /\ off < Len(mem[t.data])

tensr_get(t, indices, nindices) ==
    IF nindices # t.ndim THEN 0
    ELSE IF t.dtype \in AccessDTypes
         THEN mem[t.data][flat_index(indices, t.strides, 1, 0) + 1]
         ELSE 0

\* Index vectors of a shape (0-based coordinates, each below its extent).
MaxOf(S) == CHOOSE m \in S : \A x \in S : x <= m

IndexVectors(shape) ==
    {ix \in [1..Len(shape) -> 0..MaxOf(Range(shape)) - 1] :
        \A i \in 1..Len(shape) : ix[i] < shape[i]}

Set(h, indices, value) ==
    /\ ~crashed
    /\ UNCHANGED <<rng, files, wrappers>>
    /\ Live(h)
    /\ LET t == tensors[h]
           off == flat_index(indices, t.strides, 1, 0)
       IN
       IF Len(indices) # t.ndim \/ t.dtype \notin AccessDTypes
       THEN UNCHANGED <<mem, crashed>>
       ELSE IF Addressable(t, off)
       THEN /\ mem' = [mem EXCEPT ![t.data][off + 1] = set_store(t.dtype, value)]
            /\ UNCHANGED crashed
       ELSE \* a store outside any live buffer: undefined
            /\ crashed' \in BOOLEAN
            /\ UNCHANGED mem
    /\ last' = Outcome("set", h, NULL, indices, TRUE)
    /\ UNCHANGED <<tensors, heap, released>>

\* ------------------------------------------------- BINARY_OP(name, op)
BinaryOps == {"add", "sub", "mul", "div"}

\* x op y on float (step F32Step) or double (step 1) operands.
float_op(op, x, y, step) ==
    CASE op = "add" -> RoundRat(x + y, 1, step)
      [] op = "sub" -> RoundRat(x - y, 1, step)
      [] op = "mul" -> RoundRat(x * y, One, step)
      [] op = "div" -> RoundRat(x * One, y, step)

\* x op y on int32_t or int64_t operands; / truncates toward zero.
int_op(op, x, y) ==
    LET a == x \div One
        b == y \div One
    IN CASE op = "add" -> (a + b) * One
         [] op = "sub" -> (a - b) * One
         [] op = "mul" -> (a * b) * One
         [] op = "div" -> (IF (a < 0) # (b < 0) THEN -(Abs(a) \div Abs(b))
                           ELSE Abs(a) \div Abs(b)) * One

\* rr[i] = ra[i] op rb[i] in the branch of dtype.
binary_element(op, dtype, x, y) ==
    CASE dtype = "FLOAT32" -> float_op(op, x, y, F32Step)
      [] dtype = "FLOAT64" -> float_op(op, x, y, 1)
      [] dtype = "INT32" -> int_op(op, x, y)
      [] dtype = "INT64" -> int_op(op, x, y)

\* The dtypes some branch of BINARY_OP computes.
binary_branches == {"FLOAT32", "FLOAT64", "INT32", "INT64"}

\* The operand check at the head of BINARY_OP.
binary_rejects(a, b) == a.size # b.size \/ a.dtype # b.dtype

BinaryOp(op, a, b, fail, fill) ==
    /\ ~crashed
    /\ UNCHANGED <<rng, files, wrappers>>
    /\ Live(a)
    /\ Live(b)
    /\ Len(tensors) < MaxTensors
    /\ LET ta == tensors[a]
           tb == tensors[b]
           h == Len(tensors) + 1
       IN
       IF binary_rejects(ta, tb)
       THEN /\ last' = Outcome(op, a, NULL, <<b>>, TRUE)
            /\ UNCHANGED <<tensors, heap, mem, released, crashed>>
       ELSE
         LET r == tensr_create(heap, h, ta.shape, ta.ndim, ta.dtype, ta.device, fail)
         IN
         /\ heap' = r.heap
         /\ IF ~r.ok
            THEN /\ last' = Outcome(op, a, NULL, <<b>>, fail = "none")
                 /\ UNCHANGED <<tensors, mem, released, crashed>>
            ELSE
              LET n == Capacity(r.bytes, ta.dtype)
                  readable == /\ Addressable(ta, ta.size - 1)
                              /\ Addressable(tb, ta.size - 1)
                              /\ ta.size <= n
              IN
              /\ tensors' = Append(tensors, r.t)
              /\ released' = Append(released, 0)
              /\ last' = Outcome(op, a, h, <<b>>, fail = "none")
              /\ IF ta.dtype \notin binary_branches
                 THEN /\ mem' = Append(mem, [i \in 1..n |-> fill])
                      /\ UNCHANGED crashed
                 ELSE IF readable
                 THEN /\ mem' = Append(mem,
                            [i \in 1..n |->
                               IF i <= ta.size
                               THEN binary_element(op, ta.dtype,
                                                   mem[ta.data][i], mem[tb.data][i])
                               ELSE fill])
                      /\ UNCHANGED crashed
                 ELSE \* the loop reads or writes outside a live buffer: undefined
                      /\ mem' = Append(mem, [i \in 1..n |-> fill])
                      /\ crashed' \in BOOLEAN

\* ------------------------------------------- tensr_sum .. tensr_argmin
\* The rounding step of the float (F32Step) and the double (1) branch.
float_step(dtype) == IF dtype = "FLOAT32" THEN F32Step ELSE 1

\* The dtypes some branch of the reductions, tensr_matmul and UNARY_FUNC computes.
float_branches == {"FLOAT32", "FLOAT64"}

\* FLT_MAX, DBL_MAX: above every value a buffer of the model holds.
FLT_MAX == WordMod * One

\* for (i = 0; i < t->size; i++) sum += data[i];
RECURSIVE sum_loop(_, _, _, _, _)
sum_loop(data, i, n, sum, step) ==
    IF i >= n THEN sum
    ELSE sum_loop(data, i + 1, n, float_op("add", sum, data[i + 1], step), step)

\* if (data[i] > max_val) { max_val = data[i]; max_idx = i; }
RECURSIVE max_loop(_, _, _, _, _)
max_loop(data, i, n, max_val, max_idx) ==
    IF i >= n THEN [val |-> max_val, idx |-> max_idx]
    ELSE IF data[i + 1] > max_val
         THEN max_loop(data, i + 1, n, data[i + 1], i)
         ELSE max_loop(data, i + 1, n, max_val, max_idx)

\* if (data[i] < min_val) { min_val = data[i]; min_idx = i; }
RECURSIVE min_loop(_, _, _, _, _)
min_loop(data, i, n, min_val, min_idx) ==
    IF i >= n THEN [val |-> min_val, idx |-> min_idx]
    ELSE IF data[i + 1] < min_val
         THEN min_loop(data, i + 1, n, data[i + 1], i)
         ELSE min_loop(data, i + 1, n, min_val, min_idx)

\* The loops above read data[0 .. size-1] of a live buffer.
Readable(t) == Addressable(t, t.size - 1)

\* The ndim entries tensr_create copies out of a one-element array {1}: the
\* entries past the first are read outside the array and hold junk.
shape_read(ndim, junk) == [i \in 1..ndim |-> IF i = 1 THEN 1 ELSE junk[i - 1]]

\* What the stack holds next to the one-element shape array.
StackJunk == {1, 2}

\* The common tail of the reductions: the result tensor of the given shape and
\* dtype is created, and its element 0 is stored when some branch computes it.
\* undefined: the call read outside an array or a live buffer.
ReduceResult(op, h, rshape, rdtype, written, value, undefined, arg, fail, fill) ==
    /\ ~crashed
    /\ UNCHANGED <<rng, files, wrappers>>
    /\ Live(h)
    /\ Len(tensors) < MaxTensors
    /\ LET hn == Len(tensors) + 1
           r == tensr_create(heap, hn, rshape, Len(rshape), rdtype,
                             tensors[h].device, fail)
       IN
       /\ heap' = r.heap
       /\ IF ~r.ok
          THEN /\ last' = Outcome(op, h, NULL, arg, fail = "none")
               /\ UNCHANGED <<tensors, mem, released, crashed>>
          ELSE /\ tensors' = Append(tensors, r.t)
               /\ released' = Append(released, 0)
               /\ last' = Outcome(op, h, hn, arg, fail = "none")
               /\ mem' = Append(mem, [i \in 1..Capacity(r.bytes, rdtype) |->
                                          IF i = 1 /\ written
                                          THEN value ELSE fill])
               /\ IF undefined THEN crashed' \in BOOLEAN ELSE UNCHANGED crashed

\* sum of the elements, as tensr_sum accumulates it in the branch of dtype.
sum_value(t) == sum_loop(mem[t.data], 0, t.size, 0, float_step(t.dtype))

\* tensr_sum(t, axes, naxes, keepdims): arg records axes, keepdims and the number
\* of shape entries tensr_create was told to read from the one-element array.
Sum(h, axes, keepdims, junk, fail, fill) ==
    /\ h \in Handles
    /\ IF Len(axes) = 0
       THEN LET t == tensors[h]
                ndim == IF keepdims THEN t.ndim ELSE 1
                written == t.dtype \in float_branches
                unreadable == written /\ ~Readable(t)
                undefined == ndim > 1 \/ unreadable
            IN /\ Len(junk) = ndim - 1
               /\ ReduceResult("sum", h, shape_read(ndim, junk), t.dtype, written,
                               IF unreadable \/ ~written THEN fill ELSE sum_value(t),
                               undefined, <<axes, keepdims, ndim>>, fail, fill)
       ELSE /\ ~crashed
            /\ UNCHANGED <<rng, files, wrappers>>
            /\ Live(h)
            /\ junk = <<>>
            /\ last' = Outcome("sum", h, NULL, <<axes, keepdims, 0>>, TRUE)
            /\ UNCHANGED <<tensors, heap, mem, released, crashed>>

\* tensr_mean: tensr_sum, then data[0] /= (float)t->size in the float branches.
Mean(h, axes, keepdims, junk, fail, fill) ==
    /\ h \in Handles
    /\ IF Len(axes) = 0
       THEN LET t == tensors[h]
                ndim == IF keepdims THEN t.ndim ELSE 1
                written == t.dtype \in float_branches
                unreadable == written /\ ~Readable(t)
                undefined == ndim > 1 \/ unreadable
            IN /\ Len(junk) = ndim - 1
               /\ ReduceResult("mean", h, shape_read(ndim, junk), t.dtype, written,
                               IF unreadable \/ ~written THEN fill
                               ELSE float_op("div", sum_value(t), t.size * One,
                                             float_step(t.dtype)),
                               undefined, <<axes, keepdims, ndim>>, fail, fill)
       ELSE /\ ~crashed
            /\ UNCHANGED <<rng, files, wrappers>>
            /\ Live(h)
            /\ junk = <<>>
            /\ last' = Outcome("mean", h, NULL, <<axes, keepdims, 0>>, TRUE)
            /\ UNCHANGED <<tensors, heap, mem, released, crashed>>

\* tensr_max: axes, naxes and keepdims are not read.
Max(h, axes, keepdims, fail, fill) ==
    /\ h \in Handles
    /\ LET t == tensors[h]
           written == t.dtype \in float_branches
           undefined == written /\ ~Readable(t)
       IN ReduceResult("max", h, <<1>>, t.dtype, written,
                       IF undefined \/ ~written THEN fill
                       ELSE max_loop(mem[t.data], 0, t.size, -FLT_MAX, 0).val,
                       undefined, <<axes, keepdims, 1>>, fail, fill)

\* tensr_min: axes, naxes and keepdims are not read.
Min(h, axes, keepdims, fail, fill) ==
    /\ h \in Handles
    /\ LET t == tensors[h]
           written == t.dtype \in float_branches
           undefined == written /\ ~Readable(t)
       IN ReduceResult("min", h, <<1>>, t.dtype, written,
                       IF undefined \/ ~written THEN fill
                       ELSE min_loop(mem[t.data], 0, t.size, FLT_MAX, 0).val,
                       undefined, <<axes, keepdims, 1>>, fail, fill)

\* tensr_argmax(t, axis): axis is not read; max_idx stays 0 outside the float
\* branches and is always stored.
Argmax(h, fail, fill) ==
    /\ h \in Handles
    /\ LET t == tensors[h]
           undefined == t.dtype \in float_branches /\ ~Readable(t)
       IN ReduceResult("argmax", h, <<1>>, "INT64", TRUE,
                       IF undefined THEN fill
                       ELSE IF t.dtype \notin float_branches THEN 0
                       ELSE max_loop(mem[t.data], 0, t.size, -FLT_MAX, 0).idx * One,
                       undefined, <<>>, fail, fill)

\* tensr_argmin(t, axis): as tensr_argmax, with < and FLT_MAX.
Argmin(h, fail, fill) ==
    /\ h \in Handles
    /\ LET t == tensors[h]
           undefined == t.dtype \in float_branches /\ ~Readable(t)
       IN ReduceResult("argmin", h, <<1>>, "INT64", TRUE,
                       IF undefined THEN fill
                       ELSE IF t.dtype \notin float_branches THEN 0
                       ELSE min_loop(mem[t.data], 0, t.size, FLT_MAX, 0).idx * One,
                       undefined, <<>>, fail, fill)

\* ------------------------------------- UNARY_FUNC, tensr_pow, tensr_neg
\* The functions UNARY_FUNC is instantiated with, by the name of the operation.
UnaryFuncs == {"sqrt", "exp", "log", "abs", "sin", "cos", "tan",
               "arcsin", "arccos", "arctan"}

\* The arguments at which the C math function of an operation is tabulated
\* below: 0 and 1 (log(0) is not a finite value), and every value for fabs.
math_defined(name, x) ==
    CASE name = "abs" -> TRUE
      [] name = "log" -> x = One
      [] OTHER -> x \in {0, One}

\* 1000 * func(x) to the nearest unit, for x = 0 and x = 1.
math_milli(name, x) ==
    CASE name = "sqrt" -> IF x = 0 THEN 0 ELSE 1000
      [] name = "exp" -> IF x = 0 THEN 1000 ELSE 2718
      [] name = "log" -> 0
      [] name = "sin" -> IF x = 0 THEN 0 ELSE 841
      [] name = "cos" -> IF x = 0 THEN 1000 ELSE 540
      [] name = "tan" -> IF x = 0 THEN 0 ELSE 1557
      [] name = "arcsin" -> IF x = 0 THEN 0 ELSE 1571
      [] name = "arccos" -> IF x = 0 THEN 1571 ELSE 0
      [] name = "arctan" -> IF x = 0 THEN 0 ELSE 785

\* rr[i] = func##f(rt[i]) (step F32Step) or func(rt[i]) (step 1).
unary_element(name, x, step) ==
    IF name = "abs" THEN Abs(x)
    ELSE RoundRat(math_milli(name, x) * One, 1000, step)

\* powf(ra[i], (float)exponent), pow(ra[i], exponent) for an exponent that is a
\* whole number n >= 1: x^n.
pow_element(x, exponent, step) ==
    LET n == exponent \div One
    IN RoundRat(x ^ n, One ^ (n - 1), step)

\* -rt[i] in the float, double, int32_t and int64_t branches of tensr_neg.
neg_branches == {"FLOAT32", "FLOAT64", "INT32", "INT64"}

\* The common shape of UNARY_FUNC, tensr_pow and tensr_neg: a result like t is
\* created and, in the branches of the operation, element i is stored from
\* element i of t: values[i] is what the branch computes for element i.  arg
\* records the exponent and whether a branch stored.
operand_cells(h) ==
    IF Readable(tensors[h]) THEN SubSeq(mem[tensors[h].data], 1, tensors[h].size)
    ELSE <<>>

ElementwiseUnary(op, h, branches, values, exponent, fail, fill) ==
    /\ ~crashed
    /\ UNCHANGED <<rng, files, wrappers>>
    /\ Live(h)
    /\ Len(tensors) < MaxTensors
    /\ LET t == tensors[h]
           hn == Len(tensors) + 1
           written == t.dtype \in branches
           r == tensr_create(heap, hn, t.shape, t.ndim, t.dtype, t.device, fail)
       IN
       /\ heap' = r.heap
       /\ IF ~r.ok
          THEN /\ last' = Outcome(op, h, NULL, <<exponent, written>>, fail = "none")
               /\ UNCHANGED <<tensors, mem, released, crashed>>
          ELSE
            LET n == Capacity(r.bytes, t.dtype)
                readable == Readable(t) /\ t.size <= n
            IN
            /\ tensors' = Append(tensors, r.t)
            /\ released' = Append(released, 0)
            /\ last' = Outcome(op, h, hn, <<exponent, written>>, fail = "none")
            /\ IF ~written
               THEN /\ mem' = Append(mem, [i \in 1..n |-> fill])
                    /\ UNCHANGED crashed
               ELSE IF readable
               THEN /\ mem' = Append(mem, [i \in 1..n |->
                                 IF i <= t.size THEN values[i] ELSE fill])
                    /\ UNCHANGED crashed
               ELSE \* the loop reads or writes outside a live buffer: undefined
                    /\ mem' = Append(mem, [i \in 1..n |-> fill])
                    /\ crashed' \in BOOLEAN

\* tensr_sqrt .. tensr_arctan
Unary(name, h, fail, fill) ==
    /\ h \in Handles
    /\ ElementwiseUnary(name, h, float_branches,
                        IF tensors[h].dtype \in float_branches
                        THEN [i \in DOMAIN operand_cells(h) |->
                                 unary_element(name, operand_cells(h)[i],
                                               float_step(tensors[h].dtype))]
                        ELSE <<>>,
                        0, fail, fill)

\* tensr_pow(a, exponent)
Pow(h, exponent, fail, fill) ==
    /\ h \in Handles
    /\ ElementwiseUnary("pow", h, float_branches,
                        [i \in DOMAIN operand_cells(h) |->
                            IF tensors[h].dtype = "FLOAT32"
                            THEN pow_element(operand_cells(h)[i],
                                             RoundToFloat(exponent), F32Step)
                            ELSE pow_element(operand_cells(h)[i], exponent, 1)],
                        exponent, fail, fill)

\* tensr_neg(t)
Neg(h, fail, fill) ==
    /\ h \in Handles
    /\ ElementwiseUnary("neg", h, neg_branches,
                        [i \in DOMAIN operand_cells(h) |-> -operand_cells(h)[i]],
                        0, fail, fill)

\* ------------------------------------------------------------ tensr_matmul
\* for (p = 0; p < k; p++) sum += da[i * k + p] * db[p * n + j];
RECURSIVE matmul_loop(_, _, _, _, _, _, _, _, _)
matmul_loop(da, db, i, j, k, n, p, sum, step) ==
    IF p >= k THEN sum
    ELSE matmul_loop(da, db, i, j, k, n, p + 1,
                     float_op("add", sum,
                              float_op("mul", da[i * k + p + 1], db[p * n + j + 1], step),
                              step),
                     step)

\* The operand check at the head of tensr_matmul.
matmul_rejects(a, b) == a.ndim # 2 \/ b.ndim # 2 \/ a.shape[2] # b.shape[1]

\* tensr_matmul(a, b): the result comes from tensr_zeros; the float and double
\* branches read both payloads as a's dtype and store every element.
Matmul(a, b, fail, fill) ==
    /\ ~crashed
    /\ UNCHANGED <<rng, files, wrappers>>
    /\ Live(a)
    /\ Live(b)
    /\ Len(tensors) < MaxTensors
    /\ LET ta == tensors[a]
           tb == tensors[b]
           h == Len(tensors) + 1
       IN
       IF matmul_rejects(ta, tb)
       THEN /\ last' = Outcome("matmul", a, NULL, <<b>>, TRUE)
            /\ UNCHANGED <<tensors, heap, mem, released, crashed>>
       ELSE
         LET m == ta.shape[1]
             n == tb.shape[2]
             k == ta.shape[2]
             r == tensr_create(heap, h, <<m, n>>, 2, ta.dtype, ta.device, fail)
         IN
         /\ heap' = r.heap
         /\ IF ~r.ok
            THEN /\ last' = Outcome("matmul", a, NULL, <<b>>, fail = "none")
                 /\ UNCHANGED <<tensors, mem, released, crashed>>
            ELSE
              LET cap == Capacity(r.bytes, ta.dtype)
                  readable == /\ Readable(ta)
                              /\ Readable(tb)
                              /\ tb.dtype = ta.dtype
                              /\ m * n <= cap
              IN
              /\ tensors' = Append(tensors, r.t)
              /\ released' = Append(released, 0)
              /\ last' = Outcome("matmul", a, h, <<b>>, fail = "none")
              /\ IF ta.dtype \notin float_branches
                 THEN /\ mem' = Append(mem, [c \in 1..cap |-> 0])
                      /\ UNCHANGED crashed
                 ELSE IF readable
                 THEN /\ mem' = Append(mem,
                            [c \in 1..cap |->
                               matmul_loop(mem[ta.data], mem[tb.data],
                                           (c - 1) \div n, (c - 1) % n, k, n, 0, 0,
                                           float_step(ta.dtype))])
                      /\ UNCHANGED crashed
                 ELSE \* b's payload is read as another type, or a read falls
                      \* outside a live buffer: undefined
                      /\ mem' = Append(mem, [c \in 1..cap |-> fill])
                      /\ crashed' \in BOOLEAN

\* ------------------------------------------- tensr_seed, tensr_rand, tensr_randint
\* rand(): the generator steps and returns its new state.  A full-period
\* congruential step, so every value 0 .. RAND_MAX is returned.
rand_next(gen) == (5 * gen + 3) % RandMod

\* The generator state after n calls of rand().
RECURSIVE gen_after(_, _)
gen_after(gen, n) == IF n = 0 THEN gen ELSE gen_after(rand_next(gen), n - 1)

\* tensr_seed(seed): rng_state = seed; srand(seed);
tensr_seed(r, seed) == [r EXCEPT !.rng_state = seed, !.gen = seed % RandMod]

\* if (rng_state == 0) tensr_seed((unsigned int)time(NULL));
seed_if_unseeded(r, clock) == IF r.rng_state = 0 THEN tensr_seed(r, clock) ELSE r

\* (double)rand() / (double)RAND_MAX for the value r that rand() returned.
rand_uniform(r) == RoundRat(r * One, RAND_MAX, 1)

\* high - low in int: the difference when it fits, else what wrapping leaves.
int_wrap(d) == ((d - INT_MIN) % IntMod) + INT_MIN

\* r % range for r >= 0: C's remainder takes the sign of r.
c_rem(r, range) == r % Abs(range)

\* The caller's tensr_seed(seed).
Seed(seed) ==
    /\ ~crashed
    /\ UNCHANGED <<files, wrappers>>
    /\ rng' = [tensr_seed(rng, seed) EXCEPT !.seeded = seed, !.expect = seed % RandMod]
    /\ last' = Outcome("seed", NULL, NULL, <<seed>>, TRUE)
    /\ UNCHANGED <<tensors, heap, mem, released, crashed>>

\* tensr_rand(shape, ndim, device); clock is what time(NULL) returns.
Rand(shape, device, clock, fail, fill) ==
    /\ ~crashed
    /\ UNCHANGED <<files, wrappers>>
    /\ Len(tensors) < MaxTensors
    /\ LET h == Len(tensors) + 1
           r0 == seed_if_unseeded(rng, clock)
           r == tensr_create(heap, h, shape, Len(shape), "FLOAT32", device, fail)
       IN
       /\ heap' = r.heap
       /\ IF ~r.ok
          THEN /\ rng' = r0
               /\ last' = Outcome("rand", NULL, NULL, shape, fail = "none")
               /\ UNCHANGED <<tensors, mem, released, crashed>>
          ELSE
            LET n == Capacity(r.bytes, "FLOAT32")
            IN
            /\ tensors' = Append(tensors, r.t)
            /\ released' = Append(released, 0)
            /\ last' = Outcome("rand", NULL, h, shape, fail = "none")
            /\ rng' = [r0 EXCEPT !.gen = gen_after(r0.gen, r.t.size),
                                 !.expect = gen_after(rng.expect, r.t.size)]
            /\ mem' = Append(mem, [i \in 1..n |->
                          IF i <= r.t.size
                          THEN RoundToFloat(rand_uniform(gen_after(r0.gen, i)))
                          ELSE fill])
            /\ IF r.t.size <= n THEN UNCHANGED crashed
               ELSE crashed' \in BOOLEAN  \* stores past the buffer: undefined

\* tensr_randint(low, high, shape, ndim, device).  high - low is computed in
\* int; when it does not fit, the overflow is undefined: the build either wraps
\* or traps (trap chooses).  rand() % 0 is undefined as well.
Randint(low, high, shape, device, clock, trap, fail, fill) ==
    /\ ~crashed
    /\ UNCHANGED <<files, wrappers>>
    /\ Len(tensors) < MaxTensors
    /\ LET h == Len(tensors) + 1
           r0 == seed_if_unseeded(rng, clock)
           r == tensr_create(heap, h, shape, Len(shape), "INT32", device, fail)
           fits == INT_MIN <= high - low /\ high - low <= INT_MAX
           range == IF fits THEN high - low ELSE int_wrap(high - low)
       IN
       /\ trap => ~fits
       /\ heap' = r.heap
       /\ IF ~r.ok
          THEN /\ rng' = r0
               /\ last' = Outcome("randint", NULL, NULL, <<low, high>>, fail = "none")
               /\ UNCHANGED <<tensors, mem, released, crashed>>
          ELSE
            LET n == Capacity(r.bytes, "INT32")
                stopped == trap \/ range = 0
            IN
            /\ tensors' = Append(tensors, r.t)
            /\ released' = Append(released, 0)
            /\ last' = Outcome("randint", NULL, h, <<low, high>>, fail = "none")
            /\ rng' = IF stopped THEN r0
                      ELSE [r0 EXCEPT !.gen = gen_after(r0.gen, r.t.size),
                                      !.expect = gen_after(rng.expect, r.t.size)]
            /\ mem' = Append(mem, [i \in 1..n |->
                          IF i <= r.t.size /\ ~stopped
                          THEN (low + c_rem(gen_after(r0.gen, i), range)) * One
                          ELSE fill])
            /\ crashed' = stopped

\* ------------------------- tensr_zeros, tensr_ones, tensr_full, tensr_eye, tensr_arange
\* The dtypes some branch of tensr_ones, tensr_full, tensr_eye and tensr_arange
\* stores in.
fill_branches == {"FLOAT32", "FLOAT64", "INT32", "INT64"}

\* The common shape of the factories: tensr_create, then the stores of the
\* factory.  values[i] is what is stored in element i - 1 and stored says
\* whether anything is; arg is what the caller passed.
FactoryResult(op, shape, dtype, device, stored, values, arg, fail, fill) ==
    /\ ~crashed
    /\ UNCHANGED <<rng, files, wrappers>>
    /\ Len(tensors) < MaxTensors
    /\ LET h == Len(tensors) + 1
           r == tensr_create(heap, h, shape, Len(shape), dtype, device, fail)
       IN
       /\ heap' = r.heap
       /\ IF ~r.ok
          THEN /\ last' = Outcome(op, NULL, NULL, arg, fail = "none")
               /\ UNCHANGED <<tensors, mem, released, crashed>>
          ELSE
            LET n == Capacity(r.bytes, dtype)
            IN
            /\ tensors' = Append(tensors, r.t)
            /\ released' = Append(released, 0)
            /\ last' = Outcome(op, NULL, h, arg, fail = "none")
            /\ mem' = Append(mem, [i \in 1..n |->
                          IF stored /\ i <= Len(values) THEN values[i] ELSE fill])
            /\ IF stored /\ Len(values) > n
               THEN crashed' \in BOOLEAN  \* stores past the buffer: undefined
               ELSE UNCHANGED crashed

\* tensr_zeros: memset of size * width bytes, the bytes that were allocated.
Zeros(shape, dtype, device, fail, fill) ==
    LET bytes == (compute_size(shape, Len(shape)) * tensr_dtype_size(dtype)) % WordMod
    IN FactoryResult("zeros", shape, dtype, device, TRUE,
                     [i \in 1..Capacity(bytes, dtype) |-> 0], shape, fail, fill)

\* tensr_ones: data[i] = 1 for i < t->size, in four branches.
Ones(shape, dtype, device, fail, fill) ==
    FactoryResult("ones", shape, dtype, device, dtype \in fill_branches,
                  [i \in 1..compute_size(shape, Len(shape)) |-> One], shape, fail, fill)

\* tensr_full: data[i] = (T)value for i < t->size, in four branches.
Full(shape, value, dtype, device, fail, fill) ==
    FactoryResult("full", shape, dtype, device, dtype \in fill_branches,
                  [i \in 1..compute_size(shape, Len(shape)) |->
                      IF dtype \in fill_branches THEN set_store(dtype, value) ELSE fill],
                  <<shape, value>>, fail, fill)

\* tensr_eye: tensr_zeros of {n, n}, then data[i * n + i] = 1 in four branches.
Eye(n, dtype, device, fail, fill) ==
    FactoryResult("eye", <<n, n>>, dtype, device, TRUE,
                  [c \in 1..compute_size(<<n, n>>, 2) |->
                      IF dtype \in fill_branches /\ (c - 1) \div n = (c - 1) % n
                      THEN One ELSE 0],
                  <<n>>, fail, fill)

\* (size_t)ceil((stop - start) / step): the quotient is rounded to a double
\* before ceil looks at it.
arange_count(start, stop, step) ==
    LET q == RoundRat((stop - start) * One, step, 1)
    IN (q + One - 1) \div One

\* tensr_arange: data[i] = (T)(start + i * step) for i < n, in four branches.
Arange(start, stop, step, dtype, device, fail, fill) ==
    LET n == arange_count(start, stop, step)
    IN FactoryResult("arange", <<n>>, dtype, device, dtype \in fill_branches,
                     [i \in 1..n |->
                         IF dtype \in fill_branches
                         THEN set_store(dtype, start + (i - 1) * step) ELSE fill],
                     <<start, stop, step>>, fail, fill)

\* ----------------------------------------------------------------- tensr_inv
\* NULL unless t is 2-D and square; otherwise tensr_copy(t).
Inv(h, fail, fill) ==
    /\ ~crashed
    /\ UNCHANGED <<rng, files, wrappers>>
    /\ Live(h)
    /\ Len(tensors) < MaxTensors
    /\ LET t == tensors[h]
       IN
       IF t.ndim # 2 \/ t.shape[1] # t.shape[2]
       THEN /\ last' = Outcome("inv", h, NULL, t.shape, TRUE)
            /\ UNCHANGED <<tensors, heap, mem, released, crashed>>
       ELSE
         LET c == Len(tensors) + 1
             r == tensr_create(heap, c, t.shape, t.ndim, t.dtype, t.device, fail)
         IN
         /\ heap' = r.heap
         /\ IF r.ok
            THEN LET n == Capacity(r.bytes, t.dtype)
                 IN
                 /\ tensors' = Append(tensors, r.t)
                 /\ released' = Append(released, 0)
                 /\ last' = Outcome("inv", h, c, t.shape, fail = "none")
                 /\ IF DataBlock(t.data) \in heap /\ n <= Len(mem[t.data])
                    THEN /\ mem' = Append(mem, copy_payload(mem[t.data], n))
                         /\ UNCHANGED crashed
                    ELSE \* memcpy reads a released or too short buffer: undefined
                         /\ mem' = Append(mem, [i \in 1..n |-> fill])
                         /\ crashed' \in BOOLEAN
            ELSE /\ UNCHANGED <<tensors, mem, released, crashed>>
                 /\ last' = Outcome("inv", h, NULL, t.shape, fail = "none")

\* ------------------------------------------------------ tensr_save, tensr_load
\* A file is the sequence of the items written to it: the header fields, the
\* shape entries and the payload cells.  Its origin remembers what tensr_save
\* was given (no_origin for a file that tensr_save did not write).
DTypeOrder == <<"FLOAT32", "FLOAT64", "INT32", "INT64", "UINT8", "BOOL">>

\* The int written by fwrite(&t->dtype, ...): the enumerator of a TensrDType,
\* and the first int after the enumerators for a dtype that is none of them.
dtype_tag(dtype) ==
    IF \E i \in DOMAIN DTypeOrder : DTypeOrder[i] = dtype
    THEN (CHOOSE i \in DOMAIN DTypeOrder : DTypeOrder[i] = dtype) - 1
    ELSE Len(DTypeOrder)

\* The TensrDType a tag read by fread(&dtype, ...) is taken for.
tag_dtype(tag) == IF tag + 1 \in DOMAIN DTypeOrder THEN DTypeOrder[tag + 1] ELSE "INVALID"

\* A writer that puts the size field before the dtype tag.
save_items_size_first(t, cells) ==
    <<t.ndim, t.size, dtype_tag(t.dtype)>> \o t.shape \o cells

\* The five fwrite calls of tensr_save, in order.
save_items(t, cells) ==
    <<t.ndim, dtype_tag(t.dtype), t.size>> \o t.shape \o cells

no_origin == [saved |-> FALSE, ndim |-> 0, shape |-> <<>>, size |-> 0,
              dtype |-> "INVALID", payload |-> <<>>]

\* opens: whether fopen(filename, "wb") succeeds.  No fwrite result is looked at.
Save(h, name, opens, fill) ==
    /\ ~crashed
    /\ UNCHANGED <<rng, wrappers>>
    /\ Live(h)
    /\ LET t == tensors[h]
           readable == DataBlock(t.data) \in heap /\ t.size <= Len(mem[t.data])
           cells == IF readable THEN SubSeq(mem[t.data], 1, t.size)
                    ELSE [i \in 1..t.size |-> fill]
           written == [items |-> save_items(t, cells),
                       origin |-> [saved |-> readable, ndim |-> t.ndim,
                                   shape |-> t.shape, size |-> t.size,
                                   dtype |-> t.dtype, payload |-> cells]]
       IN
       IF ~opens
       THEN /\ last' = Outcome("save", h, NULL, [name |-> name, ret |-> -1], TRUE)
            /\ UNCHANGED <<files, crashed>>
       ELSE /\ last' = Outcome("save", h, NULL, [name |-> name, ret |-> 0], TRUE)
            /\ files' = [n \in DOMAIN files \cup {name} |->
                            IF n = name THEN written ELSE files[n]]
            /\ IF readable THEN UNCHANGED crashed
               ELSE crashed' \in BOOLEAN  \* fwrite reads a released buffer: undefined
    /\ UNCHANGED <<tensors, heap, mem, released>>

\* fail: "none", "array" (the malloc of the shape array) or a CreateFails value.
LoadFails == CreateFails \cup {"array"}

\* A file that does not exist cannot be opened.  No fread result is looked at:
\* a field the file is too short for keeps what its variable held before (junk).
Load(name, junk, fail, fill) ==
    /\ ~crashed
    /\ UNCHANGED <<rng, files, wrappers>>
    /\ Len(tensors) < MaxTensors
    /\ IF name \notin DOMAIN files
       THEN /\ last' = Outcome("load", NULL, NULL,
                               [name |-> name, written |-> 0, capacity |-> 0], TRUE)
            /\ UNCHANGED <<tensors, heap, mem, released, crashed>>
       ELSE
         LET items == files[name].items
             ndim == IF Len(items) >= 1 THEN items[1] ELSE junk[1]
             dtype == tag_dtype(IF Len(items) >= 2 THEN items[2] ELSE junk[2])
             size == IF Len(items) >= 3 THEN items[3] ELSE junk[3]
             shape == [i \in 1..ndim |->
                          IF Len(items) >= 3 + i THEN items[3 + i] ELSE junk[4]]
             h == Len(tensors) + 1
             r == tensr_create(heap, h, shape, ndim, dtype, "CPU", fail)
             width == tensr_dtype_size(dtype)
         IN
         IF fail = "array"
         THEN \* fread and memcpy through the NULL shape array
              /\ IF ndim > 0 THEN crashed' = TRUE ELSE crashed' \in BOOLEAN
              /\ last' = Outcome("load", NULL, NULL,
                                 [name |-> name, written |-> 0, capacity |-> 0], FALSE)
              /\ UNCHANGED <<tensors, heap, mem, released>>
         ELSE
           /\ heap' = r.heap
           /\ IF ~r.ok
              THEN /\ last' = Outcome("load", NULL, NULL,
                                      [name |-> name, written |-> 0, capacity |-> 0],
                                      fail = "none")
                   /\ UNCHANGED <<tensors, mem, released, crashed>>
              ELSE
                LET n == IF width = 0 THEN 0 ELSE r.bytes \div width
                    rest == IF Len(items) > 3 + ndim THEN Len(items) - (3 + ndim) ELSE 0
                    count == IF width = 0 THEN 0
                             ELSE IF size < rest THEN size ELSE rest
                IN
                /\ tensors' = Append(tensors, r.t)
                /\ released' = Append(released, 0)
                /\ mem' = Append(mem, [i \in 1..n |->
                              IF i <= count THEN items[3 + ndim + i] ELSE fill])
                /\ last' = Outcome("load", NULL, h,
                                   [name |-> name, written |-> count, capacity |-> n],
                                   fail = "none")
                /\ IF count > n
                   THEN crashed' \in BOOLEAN  \* fread stores past the buffer: undefined
                   ELSE UNCHANGED crashed

\* ------------------------------------------------------------- tensr::Tensor
\* A wrapper object: tensor_ is the handle it holds (NULL for nullptr), alive
\* is FALSE once its destructor has run, and moved tells that it was the source
\* of the last move made on it.  wrappers.freed lists, in order, the handles
\* the wrappers passed to tensr_free.
Wrappers == DOMAIN wrappers.objs

Alive(w) == w \in Wrappers /\ wrappers.objs[w].alive

new_wrapper(handle) == [tensor_ |-> handle, alive |-> TRUE, moved |-> FALSE]

\* A move that leaves the handle in its source.
move_source_keeping_handle(obj) == [obj EXCEPT !.moved = TRUE]

\* other.tensor_ = nullptr, in the move constructor and the move assignment.
move_source(obj) == [obj EXCEPT !.tensor_ = NULL, !.moved = TRUE]

\* The C state the wrapper operations act on, and their effects on it.
World == [tensors |-> tensors, heap |-> heap, mem |-> mem,
          released |-> released, crashed |-> crashed]

\* if (tensor_) tensr_free(tensor_)
after_free(w, handle) ==
    IF handle = NULL THEN w
    ELSE LET freed == tensr_free(w.tensors[handle], handle)
         IN [w EXCEPT !.heap = w.heap \ Range(freed),
                      !.released = [b \in DOMAIN w.released |->
                          w.released[b]
                            + Cardinality({i \in DOMAIN freed : freed[i] = DataBlock(b)})]]

freed_after(handle) ==
    IF handle = NULL THEN wrappers.freed ELSE Append(wrappers.freed, handle)

\* tensr_create(...): res is the handle returned, NULL on failure.
after_create(w, shape, dtype, device, fail, fill) ==
    LET h == Len(w.tensors) + 1
        r == tensr_create(w.heap, h, shape, Len(shape), dtype, device, fail)
    IN IF ~r.ok THEN [w |-> [w EXCEPT !.heap = r.heap], res |-> NULL]
       ELSE [w |-> [w EXCEPT !.heap = r.heap,
                             !.tensors = Append(w.tensors, r.t),
                             !.released = Append(w.released, 0),
                             !.mem = Append(w.mem,
                                 [i \in 1..Capacity(r.bytes, dtype) |-> fill])],
             res |-> h]

\* tensr_copy(src): a null src is dereferenced; trap is the outcome of a memcpy
\* from a released or too short buffer.
after_copy(w, src, fail, fill, trap) ==
    IF src = NULL THEN [w |-> [w EXCEPT !.crashed = TRUE], res |-> NULL]
    ELSE
      LET s == w.tensors[src]
          c == after_create(w, s.shape, s.dtype, s.device, fail, fill)
      IN IF c.res = NULL THEN c
         ELSE LET n == Len(c.w.mem[c.res])
              IN IF DataBlock(s.data) \in w.heap /\ n <= Len(w.mem[s.data])
                 THEN [w |-> [c.w EXCEPT !.mem[c.res] = copy_payload(w.mem[s.data], n)],
                       res |-> c.res]
                 ELSE [w |-> [c.w EXCEPT !.crashed = trap], res |-> c.res]

Becomes(w) ==
    /\ tensors' = w.tensors
    /\ heap' = w.heap
    /\ mem' = w.mem
    /\ released' = w.released
    /\ crashed' = w.crashed

\* Tensor(shape, dtype, device): throws, and constructs no object, when
\* tensr_create fails.
WConstruct(shape, dtype, device, fail, fill) ==
    /\ ~crashed
    /\ UNCHANGED <<rng, files>>
    /\ Len(tensors) < MaxTensors
    /\ LET c == after_create(World, shape, dtype, device, fail, fill)
       IN /\ Becomes(c.w)
          /\ wrappers' = IF c.res = NULL THEN wrappers
                         ELSE [wrappers EXCEPT !.objs = Append(@, new_wrapper(c.res))]
          /\ last' = Outcome("Tensor", NULL, c.res, shape, fail = "none")

\* Tensor(const Tensor& other): throws when tensr_copy fails.
WCopyConstruct(other, fail, fill, trap) ==
    /\ ~crashed
    /\ UNCHANGED <<rng, files>>
    /\ Alive(other)
    /\ Len(tensors) < MaxTensors
    /\ LET c == after_copy(World, wrappers.objs[other].tensor_, fail, fill, trap)
       IN /\ Becomes(c.w)
          /\ wrappers' = IF c.res = NULL THEN wrappers
                         ELSE [wrappers EXCEPT !.objs = Append(@, new_wrapper(c.res))]
          /\ last' = Outcome("Tensor(copy)", other, c.res, <<>>, fail = "none")

\* Tensor(Tensor&& other)
WMoveConstruct(other) ==
    /\ ~crashed
    /\ UNCHANGED <<rng, files, tensors, heap, mem, released, crashed>>
    /\ Alive(other)
    /\ wrappers' = [wrappers EXCEPT
           !.objs = Append([@ EXCEPT ![other] = move_source(@)],
                           new_wrapper(wrappers.objs[other].tensor_))]
    /\ last' = Outcome("Tensor(move)", other, wrappers.objs[other].tensor_, <<>>, TRUE)

\* ~Tensor()
WDestroy(this) ==
    /\ ~crashed
    /\ UNCHANGED <<rng, files>>
    /\ Alive(this)
    /\ Becomes(after_free(World, wrappers.objs[this].tensor_))
    /\ wrappers' = [objs |-> [wrappers.objs EXCEPT ![this].alive = FALSE],
                    freed |-> freed_after(wrappers.objs[this].tensor_)]
    /\ last' = Outcome("~Tensor", this, NULL, <<>>, TRUE)

\* operator=(const Tensor& other): nothing on self-assignment; no throw when
\* tensr_copy fails, tensor_ is then null.
WCopyAssign(this, other, fail, fill, trap) ==
    /\ ~crashed
    /\ UNCHANGED <<rng, files>>
    /\ Alive(this)
    /\ Alive(other)
    /\ IF this = other
       THEN UNCHANGED <<tensors, heap, mem, released, crashed, wrappers>>
       ELSE LET own == wrappers.objs[this].tensor_
                c == after_copy(after_free(World, own),
                                wrappers.objs[other].tensor_, fail, fill, trap)
            IN /\ Len(tensors) < MaxTensors
               /\ Becomes(c.w)
               /\ wrappers' = [objs |-> [wrappers.objs EXCEPT
                                   ![this] = IF c.w.crashed THEN @
                                             ELSE new_wrapper(c.res)],
                               freed |-> freed_after(own)]
    /\ last' = Outcome("operator=(copy)", this, other, <<>>, fail = "none")

\* operator=(Tensor&& other): nothing on self-assignment.
WMoveAssign(this, other) ==
    /\ ~crashed
    /\ UNCHANGED <<rng, files, tensors, mem, crashed>>
    /\ Alive(this)
    /\ Alive(other)
    /\ IF this = other
       THEN UNCHANGED <<heap, released, wrappers>>
       ELSE LET own == wrappers.objs[this].tensor_
                w == after_free(World, own)
            IN /\ heap' = w.heap
               /\ released' = w.released
               /\ wrappers' = [objs |-> [wrappers.objs EXCEPT
                                   ![this] = new_wrapper(wrappers.objs[other].tensor_),
                                   ![other] = move_source(@)],
                               freed |-> freed_after(own)]
    /\ last' = Outcome("operator=(move)", this, other, <<>>, TRUE)

\* ------------------------------------------------------------ specification
\* Lifetime of tensors and their blocks: create (every malloc may fail), copy,
\* reshape, free.  <<5, 13>> has 65 elements, one more than size_t can count.
LifeShapes == {<<1>>, <<2, 2>>, <<5, 13>>}
LifeReshapes == {<<2>>, <<4>>, <<5, 13>>}
LifeDTypes == {"FLOAT64", "UINT8"}

Next ==
    \/ \E shape \in LifeShapes, dtype \in LifeDTypes, fail \in CreateFails :
           Create(shape, dtype, "CPU", fail, 0)
    \/ \E h \in Handles, fail \in {"none", "data"} : Copy(h, fail, 0)
    \/ \E h \in Handles, shape \in LifeReshapes, fail \in {"none", "tensor"} :
           Reshape(h, shape, fail)
    \/ \E h \in Handles : Free(h)
    \/ FreeNull

Spec == Init /\ [][Next]_vars

\* Contents and metadata of tensors: set, copy, reshape, transpose, to_device,
\* free, with the payload malloc returns drawn from Garbage.
MaxDataTensors == 2
DataShapes == {<<2, 2>>}
DataReshapes == {<<2>>, <<4>>, <<2, 2>>}
DataDTypes == {"FLOAT32", "INT32", "UINT8"}
Garbage == {0, One}
SetValues == {-(One + One \div 2)}

NextData ==
    \/ \E shape \in DataShapes, dtype \in DataDTypes, fill \in Garbage :
           Len(tensors) < MaxDataTensors /\ Create(shape, dtype, "CPU", "none", fill)
    \/ \E h \in Handles, fill \in Garbage :
           Len(tensors) < MaxDataTensors /\ Copy(h, "none", fill)
    \/ \E h \in Handles, shape \in DataReshapes :
           Len(tensors) < MaxDataTensors /\ Reshape(h, shape, "none")
    \/ \E h \in Handles, fill \in Garbage :
           \E axes \in {<<>>} \cup AxisPermutations(tensors[h].ndim) :
               Len(tensors) < MaxDataTensors /\ Transpose(h, axes, "none", fill)
    \/ \E h \in Handles, value \in SetValues :
           \E indices \in IndexVectors(tensors[h].shape) : Set(h, indices, value)
    \/ \E h \in Handles : ToDevice(h, "CUDA", MaxDeviceId)
    \/ \E h \in Handles : Free(h)

SpecData == Init /\ [][NextData]_vars

\* One tensor and the views reshaped from it (and from its views), with sets
\* made through any of them.
ViewShapes == {<<3>>, <<4>>, <<2, 2>>, <<1, 4>>}

NextView ==
    \/ \E dtype \in DataDTypes, fill \in Garbage :
           Len(tensors) = 0 /\ Create(<<2, 2>>, dtype, "CPU", "none", fill)
    \/ \E h \in Handles, shape \in ViewShapes : Reshape(h, shape, "none")
    \/ \E h \in Handles, value \in SetValues :
           \E indices \in IndexVectors(tensors[h].shape) : Set(h, indices, value)
    \/ \E h \in Handles : Free(h)

SpecView == Init /\ [][NextView]_vars

\* Element-wise binary operations on two tensors built by tensr_from_array.
ArithShapes == {<<1>>, <<2>>, <<1, 2>>}

ArithCells(dtype) ==
    CASE dtype = "FLOAT32" -> {One, One + F32Step}
      [] dtype = "FLOAT64" -> {One, One + 1}
      [] dtype = "BOOL" -> {0, One}
      [] OTHER -> {One, 3 * One}

InitArith ==
    \E sa \in ArithShapes, sb \in ArithShapes, da \in DTypes, db \in DTypes :
        LET ra == tensr_create({}, 1, sa, Len(sa), da, "CPU", "none")
            rb == tensr_create(ra.heap, 2, sb, Len(sb), db, "CPU", "none")
        IN
        \E ca \in [1..Capacity(ra.bytes, da) -> ArithCells(da)],
           cb \in [1..Capacity(rb.bytes, db) -> ArithCells(db)] :
            /\ tensors = <<ra.t, rb.t>>
            /\ heap = rb.heap
            /\ mem = <<ca, cb>>
            /\ released = <<0, 0>>
            /\ last = Outcome("from_array", NULL, 2, sb, TRUE)
            /\ crashed = FALSE
            /\ rng = rng_initial
            /\ files = no_files
            /\ wrappers = no_wrappers

\* x / 0 is left out of the operands: it is undefined for integers and not a
\* finite value for floats.
NoZero(h) == \A i \in DOMAIN mem[tensors[h].data] : mem[tensors[h].data][i] # 0

NextArith ==
    \E op \in BinaryOps, a \in Handles, b \in Handles,
       fail \in {"none", "data"}, fill \in Garbage :
        /\ op = "div" => NoZero(b)
        /\ BinaryOp(op, a, b, fail, fill)

SpecArith == InitArith /\ [][NextArith]_vars

\* Reductions of one tensor built by tensr_from_array.
ReduceShapes == {<<2>>, <<3>>, <<2, 2>>}
ReduceAxes == {<<>>, <<0>>, <<0, 1>>, <<2>>}

ReduceCells(dtype) == {0} \cup ArithCells(dtype)

InitReduce ==
    \E shape \in ReduceShapes, dtype \in DTypes :
        LET r == tensr_create({}, 1, shape, Len(shape), dtype, "CPU", "none")
        IN
        \E cells \in [1..Capacity(r.bytes, dtype) -> ReduceCells(dtype)] :
            /\ tensors = <<r.t>>
            /\ heap = r.heap
            /\ mem = <<cells>>
            /\ released = <<0>>
            /\ last = Outcome("from_array", NULL, 1, shape, TRUE)
            /\ crashed = FALSE
            /\ rng = rng_initial
            /\ files = no_files
            /\ wrappers = no_wrappers

\* What may lie behind the one-element shape array when ndim entries are read.
JunkFor(ndim) == {<<>>} \cup [1..ndim - 1 -> StackJunk]

NextReduce ==
    \/ \E h \in Handles, axes \in ReduceAxes, keepdims \in BOOLEAN,
          fail \in {"none", "data"}, fill \in Garbage :
           \E junk \in JunkFor(tensors[h].ndim) :
               Len(tensors) < MaxDataTensors /\ Sum(h, axes, keepdims, junk, fail, fill)
    \/ \E h \in Handles, axes \in ReduceAxes, keepdims \in BOOLEAN,
          fail \in {"none", "data"}, fill \in Garbage :
           \E junk \in JunkFor(tensors[h].ndim) :
               Len(tensors) < MaxDataTensors /\ Mean(h, axes, keepdims, junk, fail, fill)
    \/ \E h \in Handles, axes \in ReduceAxes, keepdims \in BOOLEAN,
          fail \in {"none", "data"}, fill \in Garbage :
           Len(tensors) < MaxDataTensors /\ Max(h, axes, keepdims, fail, fill)
    \/ \E h \in Handles, axes \in ReduceAxes, keepdims \in BOOLEAN,
          fail \in {"none", "data"}, fill \in Garbage :
           Len(tensors) < MaxDataTensors /\ Min(h, axes, keepdims, fail, fill)
    \/ \E h \in Handles, fail \in {"none", "data"}, fill \in Garbage :
           Len(tensors) < MaxDataTensors /\ Argmax(h, fail, fill)
    \/ \E h \in Handles, fail \in {"none", "data"}, fill \in Garbage :
           Len(tensors) < MaxDataTensors /\ Argmin(h, fail, fill)

SpecReduce == InitReduce /\ [][NextReduce]_vars

\* Unary mathematical operations on one tensor built by tensr_from_array.
PowExponents == {One + One}

\* Every element of the operand is an argument the function is tabulated at.
MathDefined(name, h) ==
    tensors[h].dtype \in float_branches =>
        \A i \in DOMAIN mem[tensors[h].data] : math_defined(name, mem[tensors[h].data][i])

NextUnary ==
    \/ \E name \in UnaryFuncs, h \in Handles, fail \in {"none", "data"}, fill \in Garbage :
           /\ Len(tensors) < MaxDataTensors
           /\ MathDefined(name, h)
           /\ Unary(name, h, fail, fill)
    \/ \E h \in Handles, exponent \in PowExponents, fail \in {"none", "data"},
          fill \in Garbage :
           Len(tensors) < MaxDataTensors /\ Pow(h, exponent, fail, fill)
    \/ \E h \in Handles, fail \in {"none", "data"}, fill \in Garbage :
           Len(tensors) < MaxDataTensors /\ Neg(h, fail, fill)

SpecUnary == InitReduce /\ [][NextUnary]_vars

\* Matrix products of two tensors built by tensr_from_array.
MatShapes == {<<2>>, <<1, 2>>, <<2, 1>>, <<2, 2>>}

InitMatmul ==
    \E sa \in MatShapes, sb \in MatShapes, da \in DataDTypes, db \in DataDTypes :
        LET ra == tensr_create({}, 1, sa, Len(sa), da, "CPU", "none")
            rb == tensr_create(ra.heap, 2, sb, Len(sb), db, "CPU", "none")
        IN
        \E ca \in [1..Capacity(ra.bytes, da) -> ArithCells(da)],
           cb \in [1..Capacity(rb.bytes, db) -> ArithCells(db)] :
            /\ tensors = <<ra.t, rb.t>>
            /\ heap = rb.heap
            /\ mem = <<ca, cb>>
            /\ released = <<0, 0>>
            /\ last = Outcome("from_array", NULL, 2, sb, TRUE)
            /\ crashed = FALSE
            /\ rng = rng_initial
            /\ files = no_files
            /\ wrappers = no_wrappers

NextMatmul ==
    \E a \in Handles, b \in Handles, fail \in {"none", "data"}, fill \in Garbage :
        Matmul(a, b, fail, fill)

SpecMatmul == InitMatmul /\ [][NextMatmul]_vars

\* Seeding and random tensors.
Seeds == {0, 1, 4}
Clocks == 1..MaxClock
RandShapes == {<<1>>, <<2>>}
RandintPairs == {<<0, 2>>, <<-1, 1>>, <<-1, INT_MAX>>, <<INT_MIN, INT_MAX>>}

NextRandom ==
    \/ \E seed \in Seeds : Seed(seed)
    \/ \E shape \in RandShapes, clock \in Clocks, fail \in {"none", "data"} :
           Rand(shape, "CPU", clock, fail, 0)
    \/ \E pair \in RandintPairs, shape \in RandShapes, clock \in Clocks,
          trap \in BOOLEAN, fail \in {"none", "data"} :
           Randint(pair[1], pair[2], shape, "CPU", clock, trap, fail, 0)

SpecRandom == Init /\ [][NextRandom]_vars

\* The factories, one or two calls in a row.
FactoryShapes == {<<1>>, <<2>>, <<2, 2>>}
FullValues == {One + One \div 2, -(One + One \div 2)}
EyeSizes == {1, 2}
ArangeArgs == {<<0, 2 * One + One \div 2, One>>,
               <<One - One \div 4, One, One>>,
               <<0, One, One \div 4>>}

NextFactory ==
    \/ \E shape \in FactoryShapes, dtype \in DTypes, fail \in {"none", "data"},
          fill \in Garbage :
           Len(tensors) < MaxDataTensors /\ Zeros(shape, dtype, "CPU", fail, fill)
    \/ \E shape \in FactoryShapes, dtype \in DTypes, fail \in {"none", "data"},
          fill \in Garbage :
           Len(tensors) < MaxDataTensors /\ Ones(shape, dtype, "CPU", fail, fill)
    \/ \E shape \in FactoryShapes, value \in FullValues, dtype \in DTypes,
          fail \in {"none", "data"}, fill \in Garbage :
           Len(tensors) < MaxDataTensors /\ Full(shape, value, dtype, "CPU", fail, fill)
    \/ \E n \in EyeSizes, dtype \in DTypes, fail \in {"none", "data"}, fill \in Garbage :
           Len(tensors) < MaxDataTensors /\ Eye(n, dtype, "CPU", fail, fill)
    \/ \E a \in ArangeArgs, dtype \in DTypes, fail \in {"none", "data"}, fill \in Garbage :
           Len(tensors) < MaxDataTensors /\ Arange(a[1], a[2], a[3], dtype, "CPU", fail, fill)

SpecFactory == Init /\ [][NextFactory]_vars

\* tensr_inv of one matrix built by tensr_from_array, and of its results.
InvShapes == {<<2>>, <<1, 1>>, <<1, 2>>, <<2, 2>>}

InitInv ==
    \E shape \in InvShapes, dtype \in DTypes :
        LET r == tensr_create({}, 1, shape, Len(shape), dtype, "CPU", "none")
        IN
        \E cells \in [1..Capacity(r.bytes, dtype) -> ReduceCells(dtype)] :
            /\ tensors = <<r.t>>
            /\ heap = r.heap
            /\ mem = <<cells>>
            /\ released = <<0>>
            /\ last = Outcome("from_array", NULL, 1, shape, TRUE)
            /\ crashed = FALSE
            /\ rng = rng_initial
            /\ files = no_files
            /\ wrappers = no_wrappers

NextInv ==
    \E h \in Handles, fail \in {"none", "data"}, fill \in Garbage : Inv(h, fail, fill)

SpecInv == InitInv /\ [][NextInv]_vars

\* tensr_set through index vectors of the right and of a wrong length, on one
\* tensor of any dtype built by tensr_from_array.
ShortIndexVectors(shape) ==
    (IF Len(shape) = 1 THEN {<<>>}
     ELSE IndexVectors(SubSeq(shape, 1, Len(shape) - 1)))
        \cup {Append(ix, 0) : ix \in IndexVectors(shape)}

NextAccess ==
    \/ \E h \in Handles, value \in SetValues :
           \E indices \in IndexVectors(tensors[h].shape) : Set(h, indices, value)
    \/ \E h \in Handles, value \in SetValues :
           \E indices \in ShortIndexVectors(tensors[h].shape) : Set(h, indices, value)

SpecAccess == InitReduce /\ [][NextAccess]_vars

\* Saving and loading: one tensor built by tensr_from_array, its views, and a
\* file that tensr_save did not write.
IOShapes == {<<2>>, <<1, 2>>}
IOReshapes == {<<2>>, <<2, 1>>}

\* Files written by something else: empty, cut after ndim, cut after the
\* header, cut after the shape, cut inside the payload, with a dtype tag that
\* is no TensrDType, and with a size field larger than the product of the shape.
ForeignFiles ==
    {<<>>,
     <<1>>,
     <<1, 0, 2>>,
     <<1, 0, 2, 2>>,
     <<1, 0, 2, 2, One>>,
     <<1, 6, 2, 2, One, One>>,
     <<1, 0, 4, 2, One, One, One, One>>}

FileNames == {"saved", "foreign", "absent"}

\* What the variables ndim, dtype, size and the fresh shape array may hold
\* before fread: <<ndim, dtype, size, shape entry>>.
IOJunk == {<<1, 1, 1, 1>>, <<2, 2, 2, 2>>, <<1, 2, 2, 1>>}

InitIO ==
    \E shape \in IOShapes, dtype \in DTypes, items \in ForeignFiles :
        LET r == tensr_create({}, 1, shape, Len(shape), dtype, "CPU", "none")
        IN
        \E cells \in [1..Capacity(r.bytes, dtype) -> ArithCells(dtype)] :
            /\ tensors = <<r.t>>
            /\ heap = r.heap
            /\ mem = <<cells>>
            /\ released = <<0>>
            /\ last = Outcome("from_array", NULL, 1, shape, TRUE)
            /\ crashed = FALSE
            /\ rng = rng_initial
            /\ files = [n \in {"foreign"} |-> [items |-> items, origin |-> no_origin]]
            /\ wrappers = no_wrappers

NextIO ==
    \/ \E h \in Handles, shape \in IOReshapes :
           Len(tensors) < MaxDataTensors /\ Reshape(h, shape, "none")
    \/ \E h \in Handles, opens \in BOOLEAN, fill \in Garbage : Save(h, "saved", opens, fill)
    \/ \E name \in FileNames, junk \in IOJunk, fill \in Garbage :
           Load(name, junk, "none", fill)

SpecIO == InitIO /\ [][NextIO]_vars

\* The operations that allocate beyond one tensr_create, with any one of their
\* allocations failing.
MaxLeaks == 2

NextAlloc ==
    \/ \E h \in Handles, shape \in IOReshapes, fail \in ReshapeFails :
           Len(tensors) < MaxDataTensors /\ Reshape(h, shape, fail)
    \/ \E h \in Handles, fail \in CreateFails \cup {"axes"}, fill \in Garbage :
           /\ Len(tensors) < MaxDataTensors
           /\ NumAxesBlocks < MaxLeaks
           /\ Transpose(h, <<>>, fail, fill)
    \/ \E h \in Handles, fill \in Garbage : Save(h, "saved", TRUE, fill)
    \/ \E name \in FileNames, junk \in IOJunk, fail \in LoadFails, fill \in Garbage :
           Len(tensors) < MaxDataTensors /\ Load(name, junk, fail, fill)

SpecAlloc == InitIO /\ [][NextAlloc]_vars

\* Wrapper objects constructed, copied, moved, assigned and destroyed in any
\* order.
MaxWrappers == 3

NextWrap ==
    \/ \E dtype \in {"FLOAT32", "UINT8"}, fail \in {"none", "data"}, fill \in Garbage :
           Len(wrappers.objs) < MaxWrappers /\ WConstruct(<<2>>, dtype, "CPU", fail, fill)
    \/ \E other \in Wrappers, fail \in {"none", "data"}, fill \in Garbage, trap \in BOOLEAN :
           Len(wrappers.objs) < MaxWrappers /\ WCopyConstruct(other, fail, fill, trap)
    \/ \E other \in Wrappers : Len(wrappers.objs) < MaxWrappers /\ WMoveConstruct(other)
    \/ \E this \in Wrappers, other \in Wrappers, fail \in {"none", "data"},
          fill \in Garbage, trap \in BOOLEAN :
           WCopyAssign(this, other, fail, fill, trap)
    \/ \E this \in Wrappers, other \in Wrappers : WMoveAssign(this, other)
    \/ \E this \in Wrappers : WDestroy(this)

SpecWrap == Init /\ [][NextWrap]_vars

\* ------------------------------------------------------------------ oracles
\* The exact product of the extents of a shape.
RECURSIVE Prod(_)
Prod(S) == IF S = <<>> THEN 1 ELSE Head(S) * Prod(Tail(S))

\* The coordinates of row-major flat position pos (0-based) in a shape.
Unravel(shape, pos) ==
    [k \in 1..Len(shape) |->
        (pos \div Prod(SubSeq(shape, k + 1, Len(shape)))) % shape[k]]

\* The element of t at row-major flat position pos, as tensr_get reads it.
ElementAt(t, pos) == tensr_get(t, Unravel(t.shape, pos), t.ndim)

BufferLive(t) == DataBlock(t.data) \in heap

\* ---------------------------------------------------------------- claims

\* C1: no live tensor holds a reference to a buffer that has been released
\* (a view never stays live after the free of the tensor that owns its buffer).
C1_NoLiveTensorHoldsReleasedBuffer ==
    \A h \in Handles : Live(h) => BufferLive(tensors[h])

\* C2: free(t) releases t's buffer iff t.owns_data, always releases t's shape,
\* strides and struct and nothing else, and free(NULL) changes nothing; every
\* buffer is released at most once, and exactly once when all tensors are freed.
C2_FreeStep ==
    /\ last'.op = "free" =>
          LET h == last'.h
              t == tensors[h]
          IN /\ (DataBlock(t.data) \in heap \ heap') <=> t.owns_data
             /\ heap \ heap' = {ShapeBlock(h), StridesBlock(h), TensorBlock(h)}
                                  \cup (IF t.owns_data THEN {DataBlock(t.data)} ELSE {})
             /\ heap' \subseteq heap
    /\ last'.op = "free_null" => UNCHANGED <<tensors, heap, mem, released>>

C2_ReleasedOnce ==
    /\ \A b \in DOMAIN released : released[b] <= 1
    /\ (\A h \in Handles : ~Live(h)) =>
          \A b \in Handles :
              /\ released[b] = (IF tensors[b].owns_data THEN 1 ELSE 0)
              /\ DataBlock(b) \notin heap

C2_FreeReleasesOwnedBufferOnce == []C2_ReleasedOnce /\ [][C2_FreeStep]_vars

C2_Witness ==
    /\ Len(tensors) >= 2
    /\ \A h \in Handles : ~Live(h)
    /\ \E v \in Handles : ~tensors[v].owns_data
    /\ \E v \in Handles : tensors[v].owns_data /\ released[v] = 1
    /\ last.op = "free"

\* C3: a successful create(S, dtype, device) returns ndim = |S|, shape = S,
\* size = the exact product of S, and a buffer of size * dtype_width bytes.
C3_CreateSizeIsExactProduct ==
    (last.op = "create" /\ last.res # NULL) =>
        LET t == tensors[last.res]
        IN /\ t.ndim = Len(last.arg)
           /\ t.shape = last.arg
           /\ t.size = Prod(last.arg)
           /\ Len(mem[t.data]) * tensr_dtype_size(t.dtype)
                  = Prod(last.arg) * tensr_dtype_size(t.dtype)

\* C4: every tensor returned has strides[ndim-1] = 1,
\* strides[i] = strides[i+1] * shape[i+1] and size = the product of its shape.
C4_ContiguousAndSized ==
    \A h \in Handles :
        LET t == tensors[h]
        IN /\ t.strides[t.ndim] = 1
           /\ \A i \in 1..t.ndim - 1 : t.strides[i] = t.strides[i + 1] * t.shape[i + 1]
           /\ t.size = Prod(t.shape)

\* C5: when a malloc of create fails, create returns failure and the set of
\* live allocations after the call equals the set before it.
C5_Step ==
    (last'.op = "create" /\ ~last'.ok) =>
        /\ last'.res = NULL
        /\ heap' = heap
        /\ tensors' = tensors

C5_CreateFailureLeavesNoAllocation == [][C5_Step]_vars

C5_Witness ==
    /\ last.op = "create"
    /\ ~last.ok
    /\ last.res = NULL
    /\ \E h \in Handles : Live(h)

\* C6: a reshape whose mallocs succeed returns failure iff the product of the
\* new shape differs from t.size; on success the result has the new shape, its
\* ndim, and t.size.
C6_ReshapeFailsIffProductDiffers ==
    (last.op = "reshape" /\ last.ok) =>
        LET t == tensors[last.h]
        IN /\ (last.res = NULL) <=> (Prod(last.arg) # t.size)
           /\ last.res # NULL =>
                 /\ tensors[last.res].shape = last.arg
                 /\ tensors[last.res].ndim = Len(last.arg)
                 /\ tensors[last.res].size = t.size

\* C7: a successful reshape returns a tensor that does not own its data, shares
\* t's buffer and has contiguous row-major strides for the new shape; a view and
\* any live tensor on the same buffer read equal elements at every row-major
\* flat position, in every state (so also after every later set through either).
C7_ReshapeIsSharingView ==
    /\ (last.op = "reshape" /\ last.res # NULL) =>
          LET r == tensors[last.res]
              t == tensors[last.h]
          IN /\ ~r.owns_data
             /\ r.data = t.data
             /\ r.shape = last.arg
             /\ r.strides[r.ndim] = 1
             /\ \A i \in 1..r.ndim - 1 :
                    r.strides[i] = r.strides[i + 1] * r.shape[i + 1]
    /\ \A v \in Handles, t \in Handles :
          (/\ Live(v)
           /\ Live(t)
           /\ ~tensors[v].owns_data
           /\ tensors[v].data = tensors[t].data
           /\ BufferLive(tensors[t]))
          => \A pos \in 0..tensors[t].size - 1 :
                 ElementAt(tensors[v], pos) = ElementAt(tensors[t], pos)

\* A set made through a view of another shape is read back through the owner.
C7_Witness ==
    /\ last.op = "set"
    /\ Live(last.h)
    /\ ~tensors[last.h].owns_data
    /\ \E t \in Handles :
          /\ Live(t)
          /\ tensors[t].owns_data
          /\ tensors[t].data = tensors[last.h].data
          /\ tensors[t].shape # tensors[last.h].shape
          /\ tensr_get(tensors[last.h], last.arg, Len(last.arg)) < 0
          /\ \E p \in 0..tensors[t].size - 1, q \in 0..tensors[t].size - 1 :
                /\ ElementAt(tensors[t], p) < 0
                /\ ElementAt(tensors[t], q) >= 0

\* C8: copy(src) returns an owning tensor on a buffer of its own whose shape,
\* strides, dtype, device tag, device id and elements equal src's.
C8_CopyEqualsSource ==
    (last.op = "copy" /\ last.res # NULL) =>
        LET c == tensors[last.res]
            s == tensors[last.h]
        IN /\ c.owns_data
           /\ c.data # s.data
           /\ c.shape = s.shape
           /\ c.strides = s.strides
           /\ c.dtype = s.dtype
           /\ c.device = s.device
           /\ c.device_id = s.device_id
           /\ BufferLive(s) =>
                 \A pos \in 0..s.size - 1 : ElementAt(c, pos) = ElementAt(s, pos)

\* C9: transpose(t, axes) returns r with r.shape[i] = t.shape[axes[i]] whose
\* element at the permuted coordinate equals t's element at the coordinate.
C9_TransposePermutesElements ==
    (last.op = "transpose" /\ last.res # NULL /\ BufferLive(tensors[last.h])) =>
        LET r == tensors[last.res]
            t == tensors[last.h]
            axes == last.arg
        IN /\ \A i \in 1..t.ndim : r.shape[i] = t.shape[axes[i]]
           /\ \A c \in IndexVectors(t.shape) :
                  tensr_get(r, [i \in 1..t.ndim |-> c[axes[i]]], r.ndim)
                      = tensr_get(t, c, t.ndim)

\* a[i] op b[i] in the arithmetic of each of the six dtypes.
ElementwiseResult(op, dtype, x, y) ==
    CASE dtype = "FLOAT32" -> float_op(op, x, y, F32Step)
      [] dtype = "FLOAT64" -> float_op(op, x, y, 1)
      [] dtype = "UINT8" -> int_op(op, x, y) % (256 * One)
      [] dtype = "BOOL" -> (IF int_op(op, x, y) # 0 THEN One ELSE 0)
      [] OTHER -> int_op(op, x, y)

\* C10: for a and b of equal shape and dtype, for each of the six dtypes,
\* add/sub/mul/div return a new tensor with a's shape, dtype and device whose
\* element i equals a[i] op b[i].
C10_BinaryOpIsElementwise ==
    (/\ last.op \in BinaryOps
     /\ last.ok
     /\ tensors[last.h].shape = tensors[last.arg[1]].shape
     /\ tensors[last.h].dtype = tensors[last.arg[1]].dtype) =>
        LET a == tensors[last.h]
            b == tensors[last.arg[1]]
        IN /\ last.res # NULL
           /\ last.res \notin {last.h, last.arg[1]}
           /\ tensors[last.res].shape = a.shape
           /\ tensors[last.res].dtype = a.dtype
           /\ tensors[last.res].device = a.device
           /\ \A i \in 1..a.size :
                  mem[tensors[last.res].data][i]
                      = ElementwiseResult(last.op, a.dtype,
                                          mem[a.data][i], mem[b.data][i])

\* C11: add/sub/mul/div return failure, producing no tensor, whenever a.shape
\* differs from b.shape (dimension by dimension) or a.dtype differs from b.dtype.
C11_BinaryOpRejectsMismatch ==
    (/\ last.op \in BinaryOps
     /\ \/ tensors[last.h].shape # tensors[last.arg[1]].shape
        \/ tensors[last.h].dtype # tensors[last.arg[1]].dtype) =>
        last.res = NULL

\* The exact sum of the cells data[1..n].
RECURSIVE SeqSum(_, _)
SeqSum(data, n) == IF n = 0 THEN 0 ELSE data[n] + SeqSum(data, n - 1)

\* total / count in the arithmetic of dtype.
MeanOf(dtype, total, count) ==
    IF dtype \in {"FLOAT32", "FLOAT64"}
    THEN RoundRat(total, count, IF dtype = "FLOAT32" THEN F32Step ELSE 1)
    ELSE TruncToInt(RoundRat(total - (total % (count * One)), count, 1))

ReductionOps == {"sum", "mean", "max", "min"}

\* C13: with no axes given, sum(t) returns a one-element tensor of t's dtype
\* holding the sum of all elements of t, and mean(t) that sum divided by
\* t.size, for every shape and every supported dtype.
C13_SumAndMeanOfAllElements ==
    (/\ last.op \in {"sum", "mean"}
     /\ last.arg[1] = <<>>
     /\ ~last.arg[2]
     /\ last.ok) =>
        LET t == tensors[last.h]
            total == SeqSum(mem[t.data], t.size)
        IN /\ last.res # NULL
           /\ tensors[last.res].dtype = t.dtype
           /\ tensors[last.res].size = 1
           /\ mem[tensors[last.res].data][1]
                  = IF last.op = "sum" THEN total ELSE MeanOf(t.dtype, total, t.size)

\* The elements of a sequence as a set.
AxisSet(axes) == {axes[i] : i \in DOMAIN axes}

\* t's shape with the reduced dimensions removed, or kept with extent 1.
ReducedShape(shape, axes, keepdims) ==
    IF keepdims
    THEN [i \in DOMAIN shape |-> IF i - 1 \in AxisSet(axes) THEN 1 ELSE shape[i]]
    ELSE LET kept == SelectSeq([i \in DOMAIN shape |-> i],
                               LAMBDA i : i - 1 \notin AxisSet(axes))
         IN IF kept = <<>> THEN <<1>> ELSE [k \in DOMAIN kept |-> shape[kept[k]]]

\* The input flat positions that agree with output position q on the
\* non-reduced coordinates.
Contributors(shape, axes, q) ==
    LET keptshape == ReducedShape(shape, axes, TRUE)
        c == Unravel(keptshape, q)
    IN {p \in 0..Prod(shape) - 1 :
            \A i \in DOMAIN shape :
                i - 1 \notin AxisSet(axes) => Unravel(shape, p)[i] = c[i]}

RECURSIVE SetSum(_, _)
SetSum(data, P) ==
    IF P = {} THEN 0
    ELSE LET p == CHOOSE x \in P : TRUE IN data[p + 1] + SetSum(data, P \ {p})

\* The aggregate of op over the cells at the flat positions P.
Aggregate(op, dtype, data, P) ==
    CASE op = "sum" -> SetSum(data, P)
      [] op = "mean" -> MeanOf(dtype, SetSum(data, P), Cardinality(P))
      [] op = "max" -> CHOOSE v \in {data[p + 1] : p \in P} :
                           \A p \in P : data[p + 1] <= v
      [] op = "min" -> CHOOSE v \in {data[p + 1] : p \in P} :
                           \A p \in P : data[p + 1] >= v

\* C14: sum, mean, max and min with a non-empty set of axes succeed when every
\* axis lies in [0, ndim), with the reduced dimensions removed (or kept with
\* extent 1 under keepdims) and each output element aggregating the inputs that
\* agree with it on the other coordinates; they fail when some axis lies outside.
C14_AxisReduction ==
    (/\ last.op \in ReductionOps
     /\ last.arg[1] # <<>>
     /\ last.ok) =>
        LET t == tensors[last.h]
            axes == last.arg[1]
            rshape == ReducedShape(t.shape, axes, last.arg[2])
        IN IF \A a \in AxisSet(axes) : 0 <= a /\ a < t.ndim
           THEN /\ last.res # NULL
                /\ tensors[last.res].shape = rshape
                /\ \A q \in 0..Prod(rshape) - 1 :
                       mem[tensors[last.res].data][q + 1]
                           = Aggregate(last.op, t.dtype, mem[t.data],
                                       Contributors(t.shape, axes, q))
           ELSE last.res = NULL

\* C15: with no axes given, sum/mean/max/min return a tensor of shape [1] when
\* keepdims is false and of t.ndim dimensions of extent 1 when keepdims is
\* true, and building it reads no entry outside the shape array given to create.
C15_FullReductionShape ==
    (/\ last.op \in ReductionOps
     /\ last.arg[1] = <<>>
     /\ last.res # NULL) =>
        LET t == tensors[last.h]
            r == tensors[last.res]
        IN /\ r.size = 1
           /\ r.shape = IF last.arg[2] THEN [i \in 1..t.ndim |-> 1] ELSE <<1>>
           /\ last.arg[3] <= 1

\* C16: argmax(t) (argmin(t)) returns a one-element int64 tensor holding the
\* smallest flat index whose element equals the maximum (minimum) of t.
C16_ArgExtremeFirstOccurrence ==
    (last.op \in {"argmax", "argmin"} /\ last.ok) =>
        LET t == tensors[last.h]
            data == mem[t.data]
            P == 0..t.size - 1
            extreme == Aggregate(IF last.op = "argmax" THEN "max" ELSE "min",
                                 t.dtype, data, P)
            first == CHOOSE i \in P :
                         /\ data[i + 1] = extreme
                         /\ \A j \in P : data[j + 1] = extreme => i <= j
        IN /\ last.res # NULL
           /\ tensors[last.res].dtype = "INT64"
           /\ tensors[last.res].size = 1
           /\ mem[tensors[last.res].data][1] = first * One

UnaryOps == UnaryFuncs \cup {"pow", "neg"}

\* C17: a unary math op applied to a tensor of integer, uint8 or bool dtype
\* either returns failure or returns a tensor every element of which has been
\* written with the op's value; it never succeeds with elements left unwritten.
C17_UnaryOpNeverSilentNoOp ==
    (/\ last.op \in UnaryOps
     /\ tensors[last.h].dtype \notin {"FLOAT32", "FLOAT64"}
     /\ last.res # NULL) =>
        /\ last.arg[2]
        /\ last.op = "neg" =>
               \A i \in 1..tensors[last.h].size :
                   mem[tensors[last.res].data][i] = -mem[tensors[last.h].data][i]

\* The sum over p of a[i,p] * b[p,j] in the arithmetic of dtype.
RECURSIVE DotProduct(_, _, _, _, _, _, _, _)
DotProduct(dtype, da, db, i, j, k, n, p) ==
    IF p = 0 THEN 0
    ELSE ElementwiseResult("add", dtype,
             DotProduct(dtype, da, db, i, j, k, n, p - 1),
             ElementwiseResult("mul", dtype, da[i * k + p], db[(p - 1) * n + j + 1]))

\* C12: matmul(a, b) returns failure unless both operands are 2-D with
\* a.shape[1] = b.shape[0]; otherwise it returns a tensor of shape
\* [a.shape[0], b.shape[1]] whose element (i, j) is the sum over p of
\* a[i,p] * b[p,j], for every supported dtype.
C12_MatmulIsMatrixProduct ==
    (/\ last.op = "matmul"
     /\ last.ok
     /\ tensors[last.h].dtype = tensors[last.arg[1]].dtype) =>
        LET a == tensors[last.h]
            b == tensors[last.arg[1]]
        IN IF a.ndim = 2 /\ b.ndim = 2 /\ a.shape[2] = b.shape[1]
           THEN /\ last.res # NULL
                /\ tensors[last.res].shape = <<a.shape[1], b.shape[2]>>
                /\ \A i \in 0..a.shape[1] - 1, j \in 0..b.shape[2] - 1 :
                       mem[tensors[last.res].data][i * b.shape[2] + j + 1]
                           = DotProduct(a.dtype, mem[a.data], mem[b.data],
                                        i, j, a.shape[2], b.shape[2], a.shape[2])
           ELSE last.res = NULL

\* C18: for every seed s (0 included), the outputs of the rand/randint calls
\* made after seed(s) are those of any other run that made the same calls after
\* seed(s), whatever the clock: the generator is where a run seeded only by
\* seed(s) would be, and the time seeds it only if it was never seeded.
C18_SeededSequenceIsReproducible ==
    rng.seeded # -1 => rng.gen = rng.expect

\* C19: rand(shape) returns a float32 tensor of size product-of-shape in which
\* every element e satisfies 0 <= e < 1, for every value rand() can return.
C19_RandInHalfOpenUnitInterval ==
    (last.op = "rand" /\ last.res # NULL) =>
        LET t == tensors[last.res]
        IN /\ t.dtype = "FLOAT32"
           /\ t.size = Prod(last.arg)
           /\ \A i \in 1..t.size :
                  0 <= mem[t.data][i] /\ mem[t.data][i] < One

\* C20: for every pair of ints low < high (also when high - low does not fit in
\* a signed int), each element e of randint(low, high, shape) is an int32 with
\* low <= e < high.
C20_RandintInRange ==
    (last.op = "randint" /\ last.arg[1] < last.arg[2] /\ last.ok) =>
        /\ ~crashed
        /\ last.res # NULL
        /\ tensors[last.res].dtype = "INT32"
        /\ \A i \in 1..tensors[last.res].size :
               /\ last.arg[1] * One <= mem[tensors[last.res].data][i]
               /\ mem[tensors[last.res].data][i] < last.arg[2] * One


\* The C conversion of the double v to an element of a dtype.
ConvertTo(dtype, v) ==
    CASE dtype = "FLOAT32" -> RoundToFloat(v)
      [] dtype = "FLOAT64" -> v
      [] dtype \in {"INT32", "INT64"} -> TruncToInt(v)
      [] dtype = "UINT8" -> TruncToInt(v) % (256 * One)
      [] dtype = "BOOL" -> IF v = 0 THEN 0 ELSE One

\* C23: every element of zeros(S) is 0, of ones(S) is 1 and of full(S, v) is v
\* converted to the dtype, for each of the six dtypes; no element is left
\* unwritten.
C23_FactoriesFillEveryElement ==
    (last.op \in {"zeros", "ones", "full"} /\ last.res # NULL) =>
        LET t == tensors[last.res]
            expected == CASE last.op = "zeros" -> 0
                          [] last.op = "ones" -> One
                          [] last.op = "full" -> ConvertTo(t.dtype, last.arg[2])
        IN /\ Len(mem[last.res]) >= Prod(t.shape)
           /\ \A i \in 1..Prod(t.shape) : mem[last.res][i] = expected

\* C24: eye(n) is n x n with 1 on the main diagonal and 0 elsewhere, in every
\* dtype.
C24_EyeIsIdentity ==
    (last.op = "eye" /\ last.res # NULL) =>
        LET t == tensors[last.res]
            n == last.arg[1]
        IN /\ t.shape = <<n, n>>
           /\ Len(mem[last.res]) = n * n
           /\ \A r \in 0..n - 1, c \in 0..n - 1 :
                  mem[last.res][r * n + c + 1] = IF r = c THEN One ELSE 0

\* C25: for start < stop and step > 0, arange is 1-D of ceil((stop - start) /
\* step) elements, element i is start + i * step in the dtype, and every
\* element is strictly below stop.
C25_ArangeElements ==
    (last.op = "arange" /\ last.res # NULL) =>
        LET t == tensors[last.res]
            start == last.arg[1]
            stop == last.arg[2]
            step == last.arg[3]
            n == (stop - start + step - 1) \div step
        IN /\ t.shape = <<n>>
           /\ Len(mem[last.res]) = n
           /\ \A i \in 0..n - 1 :
                  /\ mem[last.res][i + 1] = ConvertTo(t.dtype, start + i * step)
                  /\ mem[last.res][i + 1] < stop


\* The determinant of the n x n matrix in cells (row-major), n <= 2.
Determinant(cells, n) ==
    IF n = 1 THEN cells[1] ELSE cells[1] * cells[4] - cells[2] * cells[3]

\* Element (i, j) of the exact product of the n x n matrices ca and cb.
RECURSIVE ExactProduct(_, _, _, _, _, _)
ExactProduct(ca, cb, n, i, j, p) ==
    IF p = 0 THEN 0
    ELSE ExactProduct(ca, cb, n, i, j, p - 1) + ca[i * n + p] * cb[(p - 1) * n + j + 1]

\* C26: inv(t) fails when t is not a square 2-D tensor or is singular; for a
\* non-singular t it returns r with matmul(r, t) the identity.
C26_InvIsInverse ==
    (last.op = "inv" /\ last.ok) =>
        LET t == tensors[last.h]
            n == t.shape[1]
        IN IF t.ndim # 2 \/ t.shape[1] # t.shape[2]
           THEN last.res = NULL
           ELSE IF Determinant(mem[t.data], n) = 0
           THEN last.res = NULL
           ELSE /\ last.res # NULL
                /\ \A i \in 0..n - 1, j \in 0..n - 1 :
                       ExactProduct(mem[last.res], mem[t.data], n, i, j, n)
                           = IF i = j THEN One * One ELSE 0


\* What tensr_get returns for the index vector of the last tensr_set: the value
\* set, converted to the dtype, when the vector has ndim entries, else 0.0.
GetAfterSet ==
    last.op = "set" =>
        LET t == tensors[last.h]
            got == tensr_get(t, last.arg, Len(last.arg))
        IN IF Len(last.arg) = t.ndim
           THEN \A v \in SetValues : got = ConvertTo(t.dtype, v)
           ELSE got = 0

\* C27: for every dtype and in-range idx with nindices = ndim, after
\* set(t, idx, v) get(t, idx) returns v converted to the dtype and every other
\* element is unchanged; when nindices # ndim, set changes nothing and get
\* returns 0.0.
C27_SetThenGet ==
    [][(last'.op = "set" /\ ~crashed') =>
          /\ GetAfterSet'
          /\ tensors' = tensors
          /\ LET t == tensors[last'.h]
                 off == flat_index(last'.arg, t.strides, 1, 0)
             IN IF Len(last'.arg) = t.ndim
                THEN \A b \in DOMAIN mem : \A i \in DOMAIN mem[b] :
                         (b # t.data \/ i # off + 1) => mem'[b][i] = mem[b][i]
                ELSE mem' = mem]_vars


\* C21: for every tensor of any of the six dtypes, non-owning views included,
\* save(f, t) returns 0 and the following load(f) returns a CPU tensor whose
\* ndim, shape, size and dtype equal t's and whose payload equals t's.
C21_SaveLoadRoundTrip ==
    /\ (last.op = "save" /\ last.arg.ret = 0) =>
          /\ last.arg.name \in DOMAIN files
          /\ files[last.arg.name].origin.shape = tensors[last.h].shape
    /\ (/\ last.op = "load"
        /\ last.ok
        /\ last.arg.name \in DOMAIN files
        /\ files[last.arg.name].origin.saved) =>
          LET o == files[last.arg.name].origin
          IN /\ last.res # NULL
             /\ tensors[last.res].ndim = o.ndim
             /\ tensors[last.res].shape = o.shape
             /\ tensors[last.res].size = o.size
             /\ tensors[last.res].dtype = o.dtype
             /\ tensors[last.res].device = "CPU"
             /\ mem[last.res] = o.payload

\* A view of another shape than its owner, with two different elements, has
\* been saved and loaded back.
C21_Witness ==
    /\ last.op = "load"
    /\ last.res = 3
    /\ last.arg.name = "saved"
    /\ tensors[3].dtype = "UINT8"
    /\ tensors[3].shape = <<2, 1>>
    /\ tensors[1].shape = <<2>>
    /\ ~tensors[2].owns_data
    /\ mem[3][1] # mem[3][2]
    /\ mem[3] = mem[1]

\* Whether a file holds the three header fields, the shape entries its ndim
\* announces and the payload cells its size field announces.
FullyReadable(items) ==
    /\ Len(items) >= 3
    /\ Len(items) >= 3 + items[1] + items[3]

\* C22: load returns failure when the file cannot be opened, on any short read
\* (header field, shape entry or payload) and when the dtype tag is not one of
\* the six; it never returns a tensor built from fields that were not read.
C22_LoadRejectsBadFiles ==
    (/\ last.op = "load"
     /\ \/ last.arg.name \notin DOMAIN files
        \/ ~FullyReadable(files[last.arg.name].items)
        \/ files[last.arg.name].items[2] + 1 \notin DOMAIN DTypeOrder)
    => last.res = NULL

\* C30: for every file content, load stores at most as many elements in the
\* buffer as it was allocated for, also when the size field of the file
\* differs from the product of the shape in the file.
C30_LoadStaysInsideBuffer ==
    (last.op = "load" /\ last.res # NULL) =>
        /\ last.arg.written <= last.arg.capacity
        /\ last.arg.capacity = Len(mem[last.res])


\* C28: when an allocation of reshape, of transpose with default axes or of
\* load fails, the operation returns failure, nothing was read or written
\* through the null allocation, and no allocation of the call is left
\* unreleased.
C28_AllocationFailureIsClean ==
    [][(last'.op \in {"reshape", "transpose", "load"} /\ ~last'.ok) =>
          /\ ~crashed'
          /\ last'.res = NULL
          /\ heap' = heap]_vars


\* How often the wrappers passed handle h to tensr_free.
TimesFreed(h) == Cardinality({i \in DOMAIN wrappers.freed : wrappers.freed[i] = h})

Holders(h) == {w \in Wrappers : wrappers.objs[w].alive /\ wrappers.objs[w].tensor_ = h}

====
